---- MODULE Spec2Model ----
(***************************************************************************)
(* Model of the Streamlit dashboard of this repository.                    *)
(* The YouTube collection pipeline of src/youtube.py:                      *)
(*   - backoff_strategy, the retry wrapper            (lines 12-33)        *)
(*   - get_channel_id, get_channel_stats              (lines 36-82)        *)
(*   - get_video_ids, the paginator                   (lines 85-115)       *)
(*   - fetch_video_details                            (lines 118-151)      *)
(*   - the sliders and the collection loop of main    (lines 642-722)      *)
(* The navigation of src/main.py                      (lines 38-119)       *)
(* and the session flag of src/weather.py, main       (lines 345-450).     *)
(* The remote API is a mock whose answers are part of the state.  The      *)
(* specifications: SpecRetry runs the wrapper, SpecPaginator runs          *)
(* get_video_ids alone (SpecPaginatorLive adds its fairness), Spec runs    *)
(* the "Analyze" handler of main, SpecCache lets time pass between its     *)
(* calls, SpecSettings moves the sliders between its runs, SpecDashboard   *)
(* runs the script of main.py and SpecWeather the weather page.            *)
(***************************************************************************)
EXTENDS Integers, Sequences, FiniteSets, TLC

\* ---------------------------------------------------------------- bounds
MaxRetries == 3
MaxInitialDelay == 2
MaxFails == 3
MaxOps == 2
MaxPages == 2
MaxFetches == 4
MaxVideoIdCalls == 2
MaxChannels == 2
MaxRuns == 2
MaxWeatherRuns == 5

\* youtube.py:12  def backoff_strategy(retries=3, initial_delay=5)
DefaultRetries == 3

\* ------------------------------------------------------------ error values
\* An exception value: HttpError carries e.resp.status, any other exception
\* has status 0.
HttpError(status, msg) == [kind |-> "HttpError", status |-> status, msg |-> msg]
OtherError(msg) == [kind |-> "Exception", status |-> 0, msg |-> msg]
NoError == [kind |-> "none", status |-> 0, msg |-> ""]

\* youtube.py:31  raise Exception("Max retries exceeded. Please try again later.")
MaxRetriesError == OtherError("Max retries exceeded. Please try again later.")

QuotaError == HttpError(403, "quotaExceeded")
RateError == HttpError(429, "rateLimitExceeded")
NotFoundError == HttpError(404, "notFound")
ServerError == HttpError(500, "backendError")
TransportError == OtherError("connection reset")

\* The KeyError a subscript raises on a response that lacks the key.
KeyError == OtherError("KeyError")

RetriableErrors == {QuotaError, RateError}
FatalErrors == {NotFoundError, ServerError, TransportError}

\* What one invocation of the wrapped function does: return, or raise err.
Returns == [raises |-> FALSE, err |-> NoError]
Raises(e) == [raises |-> TRUE, err |-> e]

\* ------------------------------------------------------------------ state
VARIABLES
    st_out,           \* st.error / st.warning / st.success messages of the
                      \* current script run, in order
    \* ---- backoff_strategy.wrapper
    w_pc,             \* "idle" | "loop" | "returned" | "raised"
    w_retries,        \* retries argument of backoff_strategy
    w_initial_delay,  \* initial_delay argument of backoff_strategy
    w_script,         \* what func does on its 1st, 2nd, ... invocation
    w_calls,          \* invocations of func in this operation
    w_i,              \* loop variable i of  for i in range(retries)
    w_delay,          \* local variable delay
    w_sleeps,         \* arguments of time.sleep in this operation, in order
    w_exc,            \* the exception the wrapper raised (NoError if none)
    w_ops,            \* operations started so far
    \* ---- the mocked remote API: the answer to each request, fixed once given
    playlists,        \* playlist id -> its chain of pages and its fault
    remote_search,    \* channel name -> answer of search().list
    remote_channels,  \* channel id -> answer of channels().list
    remote_videos,    \* video id -> answer of videos().list
    \* ---- st.cache_data: argument -> [value, out] of the cached call
    cache_channel_id,
    cache_stats,
    cache_video_ids,
    cache_details,
    \* ---- get_video_ids
    pg_pc,            \* "idle" | "fetch" | "returned"
    pg_playlist,      \* argument playlist_id
    video_ids,        \* local list video_ids
    next_page_token,  \* local next_page_token (0 is None)
    pg_request,       \* page the pending request asks for
    pg_fetches,       \* request.execute() calls made by this call
    pg_served,        \* pages this call was served, in order
    pg_error,         \* exception caught by this call (NoError if none)
    pg_result,        \* value returned
    pg_calls,         \* direct calls of get_video_ids made by SpecPaginator
    \* ---- fetch_video_details
    fd_pc,            \* "idle" | "fetch" | "returned"
    fd_video_ids,     \* argument video_ids
    fd_idx,           \* position of the loop over video_ids
    video_details,    \* local list video_details
    fd_result,        \* value returned
    \* ---- main, the handler of the Analyze button
    api_key,          \* sidebar text input
    channel_names,    \* sidebar text area, split and stripped
    pc,               \* "idle" | "ResolvingId" | "FetchingMetadata" |
                      \* "FetchingMemberList" | "FetchingMemberDetails" |
                      \* "report" | "done"
    i,                \* loop index of enumerate(channel_names), from 1
    channel_id,       \* local channel_id ("" is None)
    channel_stats,    \* local channel_stats (<<>> is None, else <<dict>>)
    channel_data,     \* list channel_data
    video_details_all,\* list video_details_all
    progress,         \* values given to progress_bar.progress, as <<num, den>>
    outcomes,         \* per identifier handled in this run: what its stages returned
    api_calls,        \* request.execute() calls of this run, in order, each
                      \* with the loop index of the identifier it was made for
    runs,             \* results of the completed runs of the handler
    slider_retries,       \* main's local retries: the slider "Retry attempts"
    slider_initial_delay, \* main's local initial_delay: the slider "Initial delay"
    run_log,          \* per run of the handler: the settings it ran under,
                      \* whether the caches were empty, its requests and sleeps
    \* ---- st.session_state, shared by the pages
    session_state,    \* key -> value; a key never assigned is not in the domain
    \* ---- main.py, the dashboard script
    platform_select,  \* value of the sidebar selectbox ("" is the empty option)
    home_button,      \* value of the Home button in the current script run
    d_pc,             \* "idle" | "start" | "sidebar" | "route"
    run_cause,        \* the user's action that led to the current script run:
                      \* "open" | "select" | "home" | "plain"
    reruns,           \* st.rerun() calls since that action
    rendered,         \* page shown by the last script run that reached one
    home_returned,    \* the Home button was the last to set current_page
    \* ---- weather.py, main
    wx_api_key,       \* sidebar text input
    wx_method,        \* sidebar radio: "popular" | "custom"
    wx_city,          \* the city of the selectbox or of the text input
    wx_runs           \* what each run of the page did, in order

wvars == <<w_pc, w_retries, w_initial_delay, w_script, w_calls, w_i, w_delay,
           w_sleeps, w_exc, w_ops>>

mockvars == <<playlists, remote_search, remote_channels, remote_videos>>

cachevars == <<cache_channel_id, cache_stats, cache_video_ids, cache_details>>

pgvars == <<pg_pc, pg_playlist, video_ids, next_page_token, pg_request,
            pg_fetches, pg_served, pg_error, pg_result>>

fdvars == <<fd_pc, fd_video_ids, fd_idx, video_details, fd_result>>

inputvars == <<api_key, channel_names>>

mainvars == <<pc, i, channel_id, channel_stats, channel_data, video_details_all,
              progress, outcomes, api_calls, runs>>

settingvars == <<slider_retries, slider_initial_delay>>

\* What the collection pipeline never writes.
dashvars == <<platform_select, home_button, d_pc, run_cause, reruns, rendered,
              home_returned>>

weathervars == <<wx_api_key, wx_method, wx_city, wx_runs>>

othervars == <<settingvars, session_state, dashvars, weathervars>>

vars == <<st_out, wvars, mockvars, cachevars, pgvars, pg_calls, fdvars,
          inputvars, mainvars, othervars, run_log>>

\* ------------------------------------------------------- the initial values
EmptyMap == <<>>

WrapperIdle ==
    /\ w_pc = "idle"
    /\ w_retries = 1
    /\ w_initial_delay = 1
    /\ w_script = <<>>
    /\ w_calls = 0
    /\ w_i = 0
    /\ w_delay = 1
    /\ w_sleeps = <<>>
    /\ w_exc = NoError
    /\ w_ops = 0

PaginatorIdle ==
    /\ pg_pc = "idle"
    /\ pg_playlist = ""
    /\ video_ids = <<>>
    /\ next_page_token = 0
    /\ pg_request = 0
    /\ pg_fetches = 0
    /\ pg_served = <<>>
    /\ pg_error = NoError
    /\ pg_result = <<>>
    /\ pg_calls = 0

DetailsIdle ==
    /\ fd_pc = "idle"
    /\ fd_video_ids = <<>>
    /\ fd_idx = 0
    /\ video_details = <<>>
    /\ fd_result = <<>>

CachesEmpty ==
    /\ cache_channel_id = EmptyMap
    /\ cache_stats = EmptyMap
    /\ cache_video_ids = EmptyMap
    /\ cache_details = EmptyMap

MainIdle ==
    /\ pc = "idle"
    /\ i = 0
    /\ channel_id = ""
    /\ channel_stats = <<>>
    /\ channel_data = <<>>
    /\ video_details_all = <<>>
    /\ progress = <<>>
    /\ outcomes = <<>>
    /\ api_calls = <<>>
    /\ runs = <<>>

NoInputs ==
    /\ api_key = ""
    /\ channel_names = <<>>

\* youtube.py:651-652  the sliders start at value=3 and value=5
SettingsDefault ==
    /\ slider_retries = 3
    /\ slider_initial_delay = 5

\* No page of the dashboard has run yet.
PagesIdle ==
    /\ session_state = EmptyMap
    /\ platform_select = ""
    /\ home_button = FALSE
    /\ d_pc = "idle"
    /\ run_cause = "open"
    /\ reruns = 0
    /\ rendered = ""
    /\ home_returned = FALSE
    /\ wx_api_key = ""
    /\ wx_method = "popular"
    /\ wx_city = "London"
    /\ wx_runs = <<>>

NoRemote ==
    /\ remote_search = EmptyMap
    /\ remote_channels = EmptyMap
    /\ remote_videos = EmptyMap

\* ---------------------------------------------------------------- helpers
\* Scripts of the wrapped function: k retriable failures, then a last outcome
\* (a return or a fatal error).  Past the end of its script func returns.
RECURSIVE RetriableRuns(_)
RetriableRuns(k) ==
    IF k = 0 THEN {<<>>}
    ELSE {Append(s, Raises(e)) : s \in RetriableRuns(k - 1), e \in RetriableErrors}

FuncScripts ==
    UNION {{s \o <<last>> : s \in RetriableRuns(k),
                            last \in {Returns} \cup {Raises(e) : e \in FatalErrors}}
           : k \in 0..MaxFails}
    \cup RetriableRuns(MaxFails + 1)

FuncOutcome(script, n) == IF n <= Len(script) THEN script[n] ELSE Returns

\* ------------------------------------------------- backoff_strategy.wrapper
\* youtube.py:20  e.resp.status in [403, 429]
IsRetriableAnyHttp(e) == e.kind = "HttpError"
IsRetriableServerErrors(e) == e.kind = "HttpError" /\ e.status \in {403, 429, 500}
IsRetriableOrTransport(e) ==
    \/ e.kind = "HttpError" /\ e.status \in {403, 429}
    \/ e.kind = "Exception"
IsRetriable(e) == e.kind = "HttpError" /\ e.status \in {403, 429}

\* youtube.py:22  time.sleep(delay) follows every 403/429 failure, whatever
\* the loop index.
SleepsAfterNotLast(idx, retries) == idx < retries - 1
SleepsAfter(idx, retries) == TRUE

\* youtube.py:23  delay *= 2
NextDelayPlusInitial(delay) == delay + 1
NextDelay(delay) == delay * 2

\* youtube.py:16  for i in range(retries)
LoopRangeOneMore(retries) == 0..retries
LoopRangeOneLess(retries) == 0..(retries - 2)
LoopRange(retries) == 0..(retries - 1)

\* A call of the decorated function: the decorator's arguments and the
\* function's behaviour are the inputs; delay = initial_delay (line 15).
WrapperCall ==
    /\ w_pc \in {"idle", "returned", "raised"}
    /\ w_ops < MaxOps
    /\ \E r \in 1..MaxRetries, d \in 1..MaxInitialDelay, s \in FuncScripts :
          /\ w_retries' = r
          /\ w_initial_delay' = d
          /\ w_script' = s
          /\ w_delay' = d
    /\ w_pc' = "loop"
    /\ w_i' = 0
    /\ w_calls' = 0
    /\ w_sleeps' = <<>>
    /\ w_exc' = NoError
    /\ w_ops' = w_ops + 1
    /\ UNCHANGED <<st_out, mockvars, cachevars, pgvars, pg_calls, fdvars,
                   inputvars, othervars, run_log, mainvars>>

\* One iteration of the loop body (lines 17-29).
WrapperAttempt ==
    /\ w_pc = "loop"
    /\ w_i \in LoopRange(w_retries)
    /\ LET o == FuncOutcome(w_script, w_calls + 1) IN
       /\ w_calls' = w_calls + 1
       /\ IF ~o.raises
          THEN \* line 18: return func(*args, **kwargs)
               /\ w_pc' = "returned"
               /\ UNCHANGED <<w_i, w_delay, w_sleeps, w_exc, st_out>>
          ELSE IF IsRetriable(o.err)
          THEN \* lines 21-23: warning, time.sleep(delay), delay *= 2
               /\ w_sleeps' = IF SleepsAfter(w_i, w_retries)
                              THEN Append(w_sleeps, w_delay)
                              ELSE w_sleeps
               /\ w_delay' = NextDelay(w_delay)
               /\ w_i' = w_i + 1
               /\ UNCHANGED <<w_pc, w_exc, st_out>>
          ELSE \* lines 25-26 and 28-29: st.error, raise
               /\ st_out' = Append(st_out, "error: wrapped call")
               /\ w_pc' = "raised"
               /\ w_exc' = o.err
               /\ UNCHANGED <<w_i, w_delay, w_sleeps>>
    /\ UNCHANGED <<w_retries, w_initial_delay, w_script, w_ops>>
    /\ UNCHANGED <<mockvars, cachevars, pgvars, pg_calls, fdvars, inputvars, othervars, run_log,
                   mainvars>>

\* The loop has run out (lines 30-31).
WrapperExhausted ==
    /\ w_pc = "loop"
    /\ w_i \notin LoopRange(w_retries)
    /\ st_out' = Append(st_out, "error: max retries exceeded")
    /\ w_pc' = "raised"
    /\ w_exc' = MaxRetriesError
    /\ UNCHANGED <<w_retries, w_initial_delay, w_script, w_calls, w_i, w_delay,
                   w_sleeps, w_ops>>
    /\ UNCHANGED <<mockvars, cachevars, pgvars, pg_calls, fdvars, inputvars, othervars, run_log,
                   mainvars>>

InitRetry ==
    /\ st_out = <<>>
    /\ WrapperIdle
    /\ playlists = EmptyMap
    /\ NoRemote
    /\ CachesEmpty
    /\ PaginatorIdle
    /\ DetailsIdle
    /\ NoInputs
    /\ MainIdle
    /\ SettingsDefault
    /\ run_log = <<>>
    /\ PagesIdle

NextRetry ==
    \/ WrapperCall
    \/ WrapperAttempt
    \/ WrapperExhausted

SpecRetry == InitRetry /\ [][NextRetry]_vars

\* ------------------------------------------------------------ st.cache_data
\* youtube.py:36, 56, 85, 118  @st.cache_data(ttl=3600): seconds an entry lives
Ttl == 3600

\* An entry that has been stored for age seconds has expired.
ExpiredNever(age) == FALSE
Expired(age) == age >= Ttl

\* A cached call stores its return value and the st.* messages it showed;
\* a later call with the same argument returns the value and shows the
\* messages again without running the body.  An entry carries the time since
\* it was stored; expired entries are never served and are left out of the
\* map.
CacheHit(cache, key) == key \in DOMAIN cache
CacheStoreSuccessOnly(cache, key, value, out) ==
    IF out # <<>> THEN cache
    ELSE (key :> [value |-> value, out |-> out, age |-> 0]) @@ cache
CacheStore(cache, key, value, out) ==
    (key :> [value |-> value, out |-> out, age |-> 0]) @@ cache

\* The cache after d more seconds.
Aged(cache, d) ==
    LET live == {k \in DOMAIN cache : ~Expired(cache[k].age + d)} IN
    IF live = {} THEN <<>>
    ELSE [k \in live |-> [cache[k] EXCEPT !.age = @ + d]]

\* The mock answers a request it has answered before in the same way.
Recorded(mock, key, resp) == key \in DOMAIN mock => resp = mock[key]
Record(mock, key, resp) == IF key \in DOMAIN mock THEN mock ELSE (key :> resp) @@ mock

\* ------------------------------------------------------ the mocked playlists
VideoIds == {"v1", "v2", "v3"}
PlaylistIds == {"PL1", "PL2"}

\* The item lists a page may hold.
PageItemLists ==
    {<<>>, <<"v1">>, <<"v2">>, <<"v1", "v2">>, <<"v3", "v1">>, <<"v2", "v2">>}

NoFault == [page |-> 0, err |-> NoError, fails |-> 0]

\* A playlist as the remote serves it: pages 1..n; page p < n carries the
\* token of page p+1, the last page carries last_next (0: no token; else the
\* token of a page already served).  The fetch of page fault.page raises
\* fault.err on its first fault.fails attempts and succeeds afterwards.
Chains(maxPages, itemLists, errs) ==
    UNION {[pages : [1..n -> itemLists],
            last_next : 0..n,
            fault : {NoFault} \cup [page : 1..n, err : errs, fails : {1, DefaultRetries}]]
           : n \in 1..maxPages}

PageToken(chain, p) == IF p < Len(chain.pages) THEN p + 1 ELSE chain.last_next

\* Outcome of  request.execute()  for page p of a chain, at the attempt-th
\* retry (from 0) of that request.
PageRaises(chain, p, attempt) == chain.fault.page = p /\ attempt < chain.fault.fails

\* ------------------------------------------------------------ get_video_ids
\* youtube.py:97 and 109  video_ids.append(...) for each item of the page
ExtendTwice(acc, items) == acc \o items \o items
ExtendFront(acc, items) == items \o acc
Extend(acc, items) == acc \o items

\* youtube.py:113-115  except Exception: st.error(...); return []
OnError(acc) == <<>>

\* youtube.py:99 and 110  next_page_token = response.get('nextPageToken')
NextTokenStale(old, fromResponse) == IF old # 0 THEN old ELSE fromResponse
NextToken(old, fromResponse) == fromResponse

\* youtube.py:85-86  get_video_ids is decorated with st.cache_data alone: a
\* request that failed is not made again, whatever the retries slider says.
RetriesMadeFromSlider(n) == n - 1
RetriesMade(n) == 0

\* get_video_ids(playlist_id, api_key) is called (lines 85-94): a cached
\* result is returned as it is, otherwise the body starts with the request
\* for the first page.
GetVideoIdsCall(pl) ==
    /\ pg_pc \in {"idle", "returned"}
    /\ pg_playlist' = pl
    /\ video_ids' = <<>>
    /\ next_page_token' = 0
    /\ pg_fetches' = 0
    /\ pg_served' = <<>>
    /\ pg_error' = NoError
    /\ IF CacheHit(cache_video_ids, pl)
       THEN /\ pg_pc' = "returned"
            /\ pg_result' = cache_video_ids[pl].value
            /\ st_out' = st_out \o cache_video_ids[pl].out
            /\ pg_request' = 0
       ELSE /\ pg_pc' = "fetch"
            /\ pg_result' = <<>>
            /\ pg_request' = 1
            /\ UNCHANGED st_out

\* A request.execute() as the log of calls keeps it.
ApiCall(ident, endpoint, arg) == [ident |-> ident, endpoint |-> endpoint, arg |-> arg]

\* One  response = request.execute()  with what follows it up to the next
\* request or the return (lines 95-99, 107-112, 113-115).
GetVideoIdsFetch ==
    /\ pg_pc = "fetch"
    /\ pg_fetches < MaxFetches
    /\ pg_fetches' = pg_fetches + 1
    /\ api_calls' = Append(api_calls, ApiCall(i, "playlistItems", <<pg_playlist, pg_request>>))
    /\ LET chain == playlists[pg_playlist]
           p == pg_request IN
       IF PageRaises(chain, p, RetriesMade(slider_retries))
       THEN /\ st_out' = Append(st_out, "error: video ids")
            /\ pg_error' = chain.fault.err
            /\ pg_result' = OnError(video_ids)
            /\ pg_pc' = "returned"
            /\ cache_video_ids' = CacheStore(cache_video_ids, pg_playlist,
                                             OnError(video_ids), <<"error: video ids">>)
            /\ UNCHANGED <<video_ids, next_page_token, pg_request, pg_served>>
       ELSE LET acc == Extend(video_ids, chain.pages[p])
                tok == NextToken(next_page_token, PageToken(chain, p)) IN
            /\ video_ids' = acc
            /\ next_page_token' = tok
            /\ pg_served' = Append(pg_served, p)
            /\ IF tok # 0
               THEN /\ pg_request' = tok
                    /\ UNCHANGED <<pg_pc, pg_result, cache_video_ids>>
               ELSE /\ pg_pc' = "returned"
                    /\ pg_result' = acc
                    /\ cache_video_ids' = CacheStore(cache_video_ids, pg_playlist, acc, <<>>)
                    /\ UNCHANGED pg_request
            /\ UNCHANGED <<st_out, pg_error>>
    /\ UNCHANGED <<wvars, mockvars, cache_channel_id, cache_stats, cache_details,
                   pg_playlist, pg_calls, fdvars, inputvars, othervars, run_log, pc, i, channel_id,
                   channel_stats, channel_data, video_details_all, progress,
                   outcomes, runs>>

\* The time-to-live of the cached entries runs out while no call is in
\* progress.
CacheExpire ==
    /\ pg_pc \in {"idle", "returned"}
    /\ pc \in {"idle", "done"}
    /\ cachevars # <<EmptyMap, EmptyMap, EmptyMap, EmptyMap>>
    /\ cache_channel_id' = Aged(cache_channel_id, Ttl)
    /\ cache_stats' = Aged(cache_stats, Ttl)
    /\ cache_video_ids' = Aged(cache_video_ids, Ttl)
    /\ cache_details' = Aged(cache_details, Ttl)
    /\ UNCHANGED <<st_out, wvars, mockvars, pgvars, pg_calls, fdvars, inputvars, othervars, run_log,
                   mainvars>>

\* get_video_ids called on its own.
PaginatorCall ==
    /\ pg_calls < MaxVideoIdCalls
    /\ pg_calls' = pg_calls + 1
    /\ \E pl \in DOMAIN playlists : GetVideoIdsCall(pl)
    /\ UNCHANGED <<wvars, mockvars, cachevars, fdvars, inputvars, othervars, run_log, mainvars>>

\* The exceptions a page request of the mock may raise.
PaginatorErrors == {QuotaError, RateError, NotFoundError, TransportError}

InitPaginator ==
    /\ st_out = <<>>
    /\ WrapperIdle
    /\ playlists \in [{"PL1"} -> Chains(MaxPages, PageItemLists, PaginatorErrors)]
    /\ NoRemote
    /\ CachesEmpty
    /\ PaginatorIdle
    /\ DetailsIdle
    /\ NoInputs
    /\ MainIdle
    /\ SettingsDefault
    /\ run_log = <<>>
    /\ PagesIdle

NextPaginator ==
    \/ PaginatorCall
    \/ GetVideoIdsFetch
    \/ CacheExpire

SpecPaginator == InitPaginator /\ [][NextPaginator]_vars

\* A call of get_video_ids in progress goes on running: the body is
\* sequential code that nothing suspends.
SpecPaginatorLive == SpecPaginator /\ WF_vars(GetVideoIdsFetch)

\* --------------------------------------------- the other mocked endpoints
ChannelNames == {"alpha", "beta"}
ChannelIds == {"UC1", "UC2"}

TitleOf(cid) == IF cid = "UC1" THEN "Channel 1" ELSE "Channel 2"
UploadsOf(cid) == IF cid = "UC1" THEN "PL1" ELSE "PL2"

\* An answer of request.execute(): the exception it raises (NoError: none)
\* and response['items'].
Answer(err, items) == [err |-> err, items |-> items, missing |-> ""]

\* Malformed responses: one without the key 'items', and one whose first item
\* lacks a key the body subscripts.
MissingItems == [err |-> NoError, items |-> <<>>, missing |-> "items"]
MissingField(item) == [err |-> NoError, items |-> <<item>>, missing |-> "field"]

\* A subscript of the body raises KeyError on the response: response['items']
\* (lines 46, 65, 129) or a key of response['items'][0] (lines 47, 67-75,
\* 131-146), which is read only if there is an item.
KeyErrorOnNever(answer) == FALSE
KeyErrorOn(answer) ==
    \/ answer.missing = "items"
    \/ answer.missing = "field" /\ answer.items # <<>>

\* The call raises inside the try block of the body.
RaisesInBody(answer) == answer.err # NoError \/ KeyErrorOn(answer)

\* The mock fails a request in one way, fixed by what the request asks for:
\* with an HTTP error or with a malformed response.
FailsByHttp(key) == key \in {"alpha", "UC1", "v1", "PL1"}

\* search().list(q=channel_name, type='channel'): no item, one channel, or a
\* failure.
SearchAnswers(name) ==
    {Answer(NoError, <<>>),
     IF FailsByHttp(name) THEN Answer(QuotaError, <<>>) ELSE MissingItems}
    \cup {Answer(NoError, <<[channelId |-> c]>>) : c \in ChannelIds}

\* channels().list(id=channel_id): no item, the channel's record, or a
\* failure.  The statistics counters are carried through unchanged and are
\* left out.
ChannelAnswers(cid) ==
    LET item == [title |-> TitleOf(cid), uploads |-> UploadsOf(cid)] IN
    {Answer(NoError, <<>>),
     IF FailsByHttp(cid) THEN Answer(QuotaError, <<>>) ELSE MissingField(item),
     Answer(NoError, <<item>>)}

\* videos().list(id=video_id): no item, the video's record, or a failure.
VideoAnswers(vid) ==
    LET item == [channelTitle |-> "uploader"] IN
    {Answer(NoError, <<>>),
     IF FailsByHttp(vid) THEN Answer(QuotaError, <<>>) ELSE MissingField(item),
     Answer(NoError, <<item>>)}

\* ----------------------------------------------------------- get_channel_id
\* Body of get_channel_id (lines 38-53) on the answer of its one request:
\* the value returned ("" is None) and the messages shown.
GetChannelId(answer) ==
    IF RaisesInBody(answer)
    THEN [value |-> "", out |-> <<"error: channel id">>]
    ELSE IF answer.items # <<>>
    THEN [value |-> answer.items[1].channelId, out |-> <<>>]
    ELSE [value |-> "", out |-> <<"warning: channel not found">>]

\* -------------------------------------------------------- get_channel_stats
\* Body of get_channel_stats (lines 58-82): <<>> is None, <<dict>> the record.
GetChannelStats(answer) ==
    IF RaisesInBody(answer)
    THEN [value |-> <<>>, out |-> <<"error: channel stats">>]
    ELSE IF answer.items # <<>>
    THEN [value |-> <<[Channel_name |-> answer.items[1].title,
                       playlist_id |-> answer.items[1].uploads]>>,
          out |-> <<>>]
    ELSE [value |-> <<>>, out |-> <<"warning: statistics not found">>]

\* ------------------------------------------------------ fetch_video_details
\* youtube.py:138-147  the record built for one video
VideoRecord(vid, info) == [Video_URL |-> vid, Channel |-> info.channelTitle]

\* youtube.py:123  for video_id in video_ids
Reversed(ids) == [k \in 1..Len(ids) |-> ids[Len(ids) + 1 - k]]
IterationOrder(ids) == ids

\* youtube.py:149-151  except Exception: st.error(...); return []
OnDetailsErrorKeepsBuilt(acc) == acc
OnDetailsError(acc) == <<>>

\* fetch_video_details(video_ids, api_key) is called (lines 118-123).
FetchVideoDetailsCall(ids) ==
    /\ fd_pc = "idle"
    /\ fd_video_ids' = ids
    /\ video_details' = <<>>
    /\ IF CacheHit(cache_details, ids)
       THEN /\ fd_pc' = "returned"
            /\ fd_result' = cache_details[ids].value
            /\ st_out' = st_out \o cache_details[ids].out
            /\ fd_idx' = 0
            /\ UNCHANGED cache_details
       ELSE IF ids = <<>>
       THEN /\ fd_pc' = "returned"
            /\ fd_result' = <<>>
            /\ fd_idx' = 0
            /\ cache_details' = CacheStore(cache_details, ids, <<>>, <<>>)
            /\ UNCHANGED st_out
       ELSE /\ fd_pc' = "fetch"
            /\ fd_result' = <<>>
            /\ fd_idx' = 1
            /\ UNCHANGED <<st_out, cache_details>>

\* One iteration of the loop over video_ids (lines 123-147), with the return
\* after the last one (line 148) or the except clause (lines 149-151).
FetchVideoDetailsStep ==
    /\ fd_pc = "fetch"
    /\ LET vid == IterationOrder(fd_video_ids)[fd_idx] IN
       \E answer \in VideoAnswers(vid) :
          /\ Recorded(remote_videos, vid, answer)
          /\ remote_videos' = Record(remote_videos, vid, answer)
          /\ api_calls' = Append(api_calls, ApiCall(i, "videos", vid))
          /\ IF RaisesInBody(answer)
             THEN /\ st_out' = Append(st_out, "error: video details")
                  /\ fd_result' = OnDetailsError(video_details)
                  /\ fd_pc' = "returned"
                  /\ cache_details' = CacheStore(cache_details, fd_video_ids,
                                                 OnDetailsError(video_details),
                                                 <<"error: video details">>)
                  /\ UNCHANGED <<video_details, fd_idx>>
             ELSE LET acc == IF answer.items # <<>>
                             THEN Append(video_details, VideoRecord(vid, answer.items[1]))
                             ELSE video_details IN
                  /\ video_details' = acc
                  /\ IF fd_idx < Len(fd_video_ids)
                     THEN /\ fd_idx' = fd_idx + 1
                          /\ UNCHANGED <<fd_pc, fd_result, cache_details>>
                     ELSE /\ fd_pc' = "returned"
                          /\ fd_result' = acc
                          /\ cache_details' = CacheStore(cache_details, fd_video_ids, acc, <<>>)
                          /\ UNCHANGED fd_idx
                  /\ UNCHANGED st_out
    /\ UNCHANGED <<wvars, playlists, remote_search, remote_channels,
                   cache_channel_id, cache_stats, cache_video_ids, pgvars, pg_calls,
                   fd_video_ids, inputvars, othervars, run_log, pc, i, channel_id, channel_stats,
                   channel_data, video_details_all, progress, outcomes, runs>>

\* ----------------------------------------------------------------- main
\* The playlists the mock serves to the pipeline: finite chains of one-item
\* pages (or a single empty page), the request for the last page failing
\* once (with an HTTP error or on a malformed page) or not at all.
PipelineChains(pl) ==
    LET err == IF FailsByHttp(pl) THEN QuotaError ELSE KeyError
        pagesOf(n) == [p \in 1..n |-> IF p % 2 = 1 THEN <<"v1">> ELSE <<"v2">>]
    IN  {[pages |-> <<(<<>>)>>, last_next |-> 0, fault |-> NoFault]}
        \cup UNION {{[pages |-> pagesOf(n), last_next |-> 0, fault |-> f] :
                        f \in {NoFault, [page |-> n, err |-> err, fails |-> 1]}}
                     : n \in 1..MaxPages}

\* What the stages returned for one identifier (defaults for stages not
\* reached).
Outcome(name, cid, stats, ids, details) ==
    [name |-> name, channel_id |-> cid, stats |-> stats, video_ids |-> ids,
     details |-> details]

\* youtube.py:663-664  channel_data = [] ; video_details_all = []
FreshListKeepsOld(old) == old
FreshList(old) == <<>>

\* youtube.py:670  the for loop goes on with the next identifier, whatever
\* the current one yielded.
NextPcStopOnFailure(idx, n, yielded) ==
    IF idx < n /\ yielded THEN "ResolvingId" ELSE "report"
NextPc(idx, n, yielded) == IF idx < n THEN "ResolvingId" ELSE "report"

\* youtube.py:681-682  video['Channel'] = channel_stats['Channel_name']
RelabelKeepsUploader(details, channelName) == details
Relabel(details, channelName) ==
    [k \in 1..Len(details) |-> [details[k] EXCEPT !.Channel = channelName]]

\* youtube.py:679  if video_ids:
HasVideoIdsAlways(ids) == TRUE
HasVideoIds(ids) == ids # <<>>

\* youtube.py:683  video_details_all.extend(video_details)
ExtendAllFront(all, details) == details \o all
ExtendAllReplace(all, details) == details
ExtendAll(all, details) == all \o details

\* youtube.py:684  progress_bar.progress((i + 1) / total_channels), the
\* quotient kept as <<numerator, denominator>>; idx counts from 1.
ProgressValueZeroBased(idx, n) == <<idx - 1, n>>
ProgressValue(idx, n) == <<idx, n>>

\* youtube.py:684 and the loop header: the identifier is finished.
FinishIdentifier(outcome, yielded) ==
    /\ progress' = Append(progress, ProgressValue(i, Len(channel_names)))
    /\ outcomes' = Append(outcomes, outcome)
    /\ pc' = NextPc(i, Len(channel_names), yielded)
    /\ i' = i + 1
    /\ channel_id' = ""
    /\ channel_stats' = <<>>

\* The Analyze button is pressed: the script reruns (lines 654-668).
StartRun ==
    /\ pc \in {"idle", "done"}
    /\ Len(runs) < MaxRuns
    /\ IF api_key = ""
       THEN /\ st_out' = <<"error: api key">>
            /\ pc' = "done"
            /\ UNCHANGED <<i, channel_data, video_details_all, progress, outcomes,
                           api_calls>>
       ELSE IF channel_names = <<>>
       THEN /\ st_out' = <<"error: channel names">>
            /\ pc' = "done"
            /\ UNCHANGED <<i, channel_data, video_details_all, progress, outcomes,
                           api_calls>>
       ELSE /\ st_out' = <<>>
            /\ channel_data' = FreshList(channel_data)
            /\ video_details_all' = FreshList(video_details_all)
            /\ progress' = <<>>
            /\ outcomes' = <<>>
            /\ api_calls' = <<>>
            /\ i' = 1
            /\ pc' = "ResolvingId"
    /\ UNCHANGED <<wvars, mockvars, cachevars, pgvars, pg_calls, fdvars, inputvars,
                   othervars, channel_id, channel_stats, runs>>

AnalyzeClick == StartRun /\ UNCHANGED run_log

\* lines 671-673, with get_channel_id (lines 36-53).
ResolveId ==
    /\ pc = "ResolvingId"
    /\ LET name == channel_names[i]
           hit == CacheHit(cache_channel_id, name) IN
       \E answer \in SearchAnswers(name) :
          /\ Recorded(remote_search, name, answer)
          /\ LET r == IF hit THEN cache_channel_id[name] ELSE GetChannelId(answer) IN
             /\ remote_search' = IF hit THEN remote_search
                                 ELSE Record(remote_search, name, answer)
             /\ api_calls' = IF hit THEN api_calls
                             ELSE Append(api_calls, ApiCall(i, "search", name))
             /\ cache_channel_id' = IF hit THEN cache_channel_id
                                    ELSE CacheStore(cache_channel_id, name, r.value, r.out)
             /\ st_out' = st_out \o r.out
             /\ IF r.value # ""
                THEN /\ channel_id' = r.value
                     /\ pc' = "FetchingMetadata"
                     /\ UNCHANGED <<i, channel_stats, progress, outcomes>>
                ELSE FinishIdentifier(Outcome(name, "", <<>>, <<>>, <<>>), FALSE)
    /\ UNCHANGED <<wvars, playlists, remote_channels, remote_videos, cache_stats,
                   cache_video_ids, cache_details, pgvars, pg_calls, fdvars,
                   inputvars, othervars, run_log, channel_data, video_details_all, runs>>

\* lines 674-677, with get_channel_stats (lines 56-82).
FetchMetadata ==
    /\ pc = "FetchingMetadata"
    /\ LET hit == CacheHit(cache_stats, channel_id) IN
       \E answer \in ChannelAnswers(channel_id) :
          /\ Recorded(remote_channels, channel_id, answer)
          /\ LET r == IF hit THEN cache_stats[channel_id] ELSE GetChannelStats(answer) IN
             /\ remote_channels' = IF hit THEN remote_channels
                                   ELSE Record(remote_channels, channel_id, answer)
             /\ api_calls' = IF hit THEN api_calls
                             ELSE Append(api_calls, ApiCall(i, "channels", channel_id))
             /\ cache_stats' = IF hit THEN cache_stats
                               ELSE CacheStore(cache_stats, channel_id, r.value, r.out)
             /\ st_out' = st_out \o r.out
             /\ IF r.value # <<>>
                THEN /\ channel_stats' = r.value
                     /\ channel_data' = Append(channel_data, r.value[1])
                     /\ pc' = "FetchingMemberList"
                     /\ UNCHANGED <<i, channel_id, progress, outcomes>>
                ELSE /\ FinishIdentifier(
                            Outcome(channel_names[i], channel_id, <<>>, <<>>, <<>>), FALSE)
                     /\ UNCHANGED channel_data
    /\ UNCHANGED <<wvars, playlists, remote_search, remote_videos, cache_channel_id,
                   cache_video_ids, cache_details, pgvars, pg_calls, fdvars,
                   inputvars, othervars, run_log, video_details_all, runs>>

\* line 678: main calls get_video_ids(playlist_id, api_key).
MainGetVideoIds ==
    /\ pc = "FetchingMemberList"
    /\ pg_pc = "idle"
    /\ LET pl == channel_stats[1].playlist_id IN
       /\ \E c \in PipelineChains(pl) : playlists' = Record(playlists, pl, c)
       /\ GetVideoIdsCall(pl)
    /\ UNCHANGED <<wvars, remote_search, remote_channels, remote_videos, cachevars,
                   pg_calls, fdvars, inputvars, othervars, run_log, mainvars>>

\* lines 678-679: get_video_ids has returned.
MainGotVideoIds ==
    /\ pc = "FetchingMemberList"
    /\ pg_pc = "returned"
    /\ pg_pc' = "idle"
    /\ IF HasVideoIds(pg_result)
       THEN /\ pc' = "FetchingMemberDetails"
            /\ UNCHANGED <<i, channel_id, channel_stats, progress, outcomes>>
       ELSE FinishIdentifier(
                Outcome(channel_names[i], channel_id, channel_stats, <<>>, <<>>), TRUE)
    /\ UNCHANGED <<st_out, wvars, mockvars, cachevars, pg_playlist, video_ids,
                   next_page_token, pg_request, pg_fetches, pg_served, pg_error,
                   pg_result, pg_calls, fdvars, inputvars, othervars, run_log, channel_data,
                   video_details_all, api_calls, runs>>

\* line 680: main calls fetch_video_details(video_ids, api_key).
MainFetchDetails ==
    /\ pc = "FetchingMemberDetails"
    /\ FetchVideoDetailsCall(pg_result)
    /\ UNCHANGED <<wvars, mockvars, cache_channel_id, cache_stats, cache_video_ids,
                   pgvars, pg_calls, inputvars, othervars, run_log, mainvars>>

\* lines 680-684: fetch_video_details has returned.
MainGotDetails ==
    /\ pc = "FetchingMemberDetails"
    /\ fd_pc = "returned"
    /\ fd_pc' = "idle"
    /\ video_details_all' =
          ExtendAll(video_details_all, Relabel(fd_result, channel_stats[1].Channel_name))
    /\ FinishIdentifier(
          Outcome(channel_names[i], channel_id, channel_stats, pg_result, fd_result), TRUE)
    /\ UNCHANGED <<st_out, wvars, mockvars, cachevars, pgvars, pg_calls, fd_video_ids,
                   fd_idx, video_details, fd_result, inputvars, othervars, run_log, channel_data,
                   api_calls, runs>>

\* youtube.py:686 and 721-722  if channel_data: ... else: st.error(...)
TerminalErrorOnNoVideos(channelData, videoDetailsAll) == videoDetailsAll = <<>>
TerminalError(channelData, videoDetailsAll) == channelData = <<>>

\* lines 686-722: what is shown once the loop is over: the success message
\* and the channel comparison (lines 687-690), then the video charts and the
\* PDF report (lines 692-717) or the warning of line 719; or the error of
\* line 722.
ShowReport ==
    /\ pc = "report"
    /\ st_out' = IF TerminalError(channel_data, video_details_all)
                 THEN Append(st_out, "error: no channel data")
                 ELSE IF video_details_all = <<>>
                 THEN st_out \o <<"success", "comparison", "warning: no video details">>
                 ELSE st_out \o <<"success", "comparison", "charts", "report">>
    /\ runs' = Append(runs, [channel_data |-> channel_data,
                             video_details_all |-> video_details_all])
    /\ pc' = "done"
    /\ UNCHANGED <<wvars, mockvars, cachevars, pgvars, pg_calls, fdvars, inputvars,
                   othervars,
                   i, channel_id, channel_stats, channel_data, video_details_all,
                   progress, outcomes, api_calls>>

Report == ShowReport /\ UNCHANGED run_log

RECURSIVE SeqsUpTo(_, _)
SeqsUpTo(S, n) ==
    IF n = 0 THEN {<<>>}
    ELSE LET shorter == SeqsUpTo(S, n - 1) IN
         shorter \cup {Append(s, x) : s \in {t \in shorter : Len(t) = n - 1}, x \in S}

Init ==
    /\ st_out = <<>>
    /\ WrapperIdle
    /\ playlists = EmptyMap
    /\ NoRemote
    /\ CachesEmpty
    /\ PaginatorIdle
    /\ DetailsIdle
    /\ api_key \in {"", "KEY"}
    /\ channel_names \in SeqsUpTo(ChannelNames, MaxChannels)
    /\ MainIdle
    /\ SettingsDefault
    /\ run_log = <<>>
    /\ PagesIdle

Next ==
    \/ AnalyzeClick
    \/ ResolveId
    \/ FetchMetadata
    \/ MainGetVideoIds
    \/ GetVideoIdsFetch
    \/ MainGotVideoIds
    \/ MainFetchDetails
    \/ FetchVideoDetailsStep
    \/ MainGotDetails
    \/ Report
    \/ CacheExpire

Spec == Init /\ [][Next]_vars

\* ------------------------------------------------ the cache as time passes
\* Seconds that may pass between two calls of the cached functions.
TimeSteps == {Ttl \div 2, Ttl - 1}

\* Time passes between two calls of the cached functions: every entry grows
\* older and the expired ones are gone.
TimePasses ==
    /\ pg_pc # "fetch"
    /\ fd_pc # "fetch"
    /\ cachevars # <<EmptyMap, EmptyMap, EmptyMap, EmptyMap>>
    /\ \E d \in TimeSteps :
          /\ cache_channel_id' = Aged(cache_channel_id, d)
          /\ cache_stats' = Aged(cache_stats, d)
          /\ cache_video_ids' = Aged(cache_video_ids, d)
          /\ cache_details' = Aged(cache_details, d)
    /\ UNCHANGED <<st_out, wvars, mockvars, pgvars, pg_calls, fdvars, inputvars, othervars, run_log,
                   mainvars>>

\* The pipeline run for one identifier while the entries age one by one.
InitCache ==
    /\ Init
    /\ api_key = "KEY"
    /\ Len(channel_names) = 1

NextCache ==
    \/ Next
    \/ TimePasses

SpecCache == InitCache /\ [][NextCache]_vars

\* ------------------------------------------------- the two retry sliders
\* Positions of the sliders (each goes from 1 to 10).
SliderRetries == {1, 3}
SliderDelays == {5, 10}

\* youtube.py:651-652  The user moves a slider between two runs of the
\* handler: the script reruns and reads the new values.
MoveSliders ==
    /\ pc \in {"idle", "done"}
    /\ \E r \in SliderRetries, d \in SliderDelays :
          /\ <<r, d>> # <<slider_retries, slider_initial_delay>>
          /\ slider_retries' = r
          /\ slider_initial_delay' = d
    /\ UNCHANGED <<st_out, wvars, mockvars, cachevars, pgvars, pg_calls, fdvars,
                   inputvars, mainvars, run_log, session_state, dashvars,
                   weathervars>>

\* The entry of the log for a run that starts now: the values the script
\* read from the two sliders (lines 651-652) and whether every cache is empty.
RunUnder(r, d) ==
    [retries |-> r, initial_delay |-> d,
     cold |-> cachevars = <<EmptyMap, EmptyMap, EmptyMap, EmptyMap>>,
     calls |-> <<>>, sleeps |-> <<>>]

\* The handler starts, and the log opens an entry for the run.
AnalyzeClickLogged ==
    /\ StartRun
    /\ run_log' = IF api_key # "" /\ channel_names # <<>>
                  THEN Append(run_log, RunUnder(slider_retries, slider_initial_delay))
                  ELSE run_log

\* The handler ends, and the log keeps the requests and the sleeps of the run.
ReportLogged ==
    /\ ShowReport
    /\ run_log' = [run_log EXCEPT ![Len(run_log)] =
                      [@ EXCEPT !.calls = api_calls, !.sleeps = w_sleeps]]

\* The pipeline run for one identifier under changing settings.
InitSettings ==
    /\ Init
    /\ api_key = "KEY"
    /\ Len(channel_names) = 1

NextSettings ==
    \/ AnalyzeClickLogged
    \/ ResolveId
    \/ FetchMetadata
    \/ MainGetVideoIds
    \/ GetVideoIdsFetch
    \/ MainGotVideoIds
    \/ MainFetchDetails
    \/ FetchVideoDetailsStep
    \/ MainGotDetails
    \/ ReportLogged
    \/ CacheExpire
    \/ MoveSliders

SpecSettings == InitSettings /\ [][NextSettings]_vars

\* ------------------------------------------------ main.py, the dashboard
\* main.py:57-64  the options of the sidebar selectbox
Platforms ==
    {"YouTube Analytics", "Business Analytics", "PDF Analytics",
     "Python Code Analytics", "Weather Analytics"}
PlatformOptions == {""} \cup Platforms

\* main.py:104-111  the keys of page_functions
PageFunctions == {"Home"} \cup Platforms

\* st.session_state with the key assigned.
Put(state, key, value) == (key :> value) @@ state

\* main.py:38-41  the three keys are set when current_page is not there
InitialiseSession(state) ==
    IF "current_page" \in DOMAIN state THEN state
    ELSE Put(Put(Put(state, "current_page", "Home"), "last_nav", "None"),
             "platform_selected", FALSE)

\* main.py:44-45  the name the code page had before
LegacyRewrite(page) ==
    IF page = "Code Analytics" THEN "Python Code Analytics" ELSE page

\* main.py:80-81  the selectbox navigates
Navigates(selected, page, lastNav) ==
    selected # "" /\ selected # page /\ lastNav # "home_button"

\* main.py:97  st.session_state.platform_selected = False
FlagAfterHomeKept(flag) == flag
FlagAfterHome(flag) == FALSE

\* main.py:114-118  the page to show; a page without a function gives Home
RouteTarget(page) == IF page \in PageFunctions THEN page ELSE "Home"

\* The state of the dashboard that the pipeline and the weather page leave
\* alone, and the other way round.
notdashvars == <<st_out, wvars, mockvars, cachevars, pgvars, pg_calls, fdvars,
                 inputvars, mainvars, settingvars, run_log, weathervars>>

\* A user's action starts a script run: the widgets hold what the user set.
StartScript(cause, selected, pressed) ==
    /\ d_pc = "idle"
    /\ platform_select' = selected
    /\ home_button' = pressed
    /\ run_cause' = cause
    /\ reruns' = 0
    /\ d_pc' = "start"
    /\ UNCHANGED <<session_state, rendered, home_returned, notdashvars>>

\* The user picks another option of the selectbox.
UserSelects ==
    \E p \in PlatformOptions \ {platform_select} : StartScript("select", p, FALSE)

\* The user presses the Home button.
UserPressesHome == StartScript("home", platform_select, TRUE)

\* The script runs again with no widget changed (Rerun in the menu, a
\* reconnecting browser).
UserReruns == StartScript("plain", platform_select, FALSE)

\* st.rerun(): the run ends here and the script starts again; a button that
\* was pressed reads False in the new run.
Rerun ==
    /\ d_pc' = "start"
    /\ home_button' = FALSE
    /\ reruns' = reruns + 1

\* main.py:38-45  session state initialisation and the legacy page name.
DashStart ==
    /\ d_pc = "start"
    /\ LET state == InitialiseSession(session_state) IN
       session_state' = Put(state, "current_page", LegacyRewrite(state["current_page"]))
    /\ d_pc' = "sidebar"
    /\ UNCHANGED <<platform_select, home_button, run_cause, reruns, rendered,
                   home_returned, notdashvars>>

\* main.py:48-101  the sidebar: the selectbox and its navigation (lines
\* 70-85), the Home button (lines 91-98), the reset of last_nav (line 101).
DashSidebar ==
    /\ d_pc = "sidebar"
    /\ IF Navigates(platform_select, session_state["current_page"],
                    session_state["last_nav"])
       THEN /\ session_state' =
                  Put(Put(Put(session_state, "current_page", platform_select),
                          "last_nav", "selectbox"),
                      "platform_selected", TRUE)
            /\ home_returned' = FALSE
            /\ Rerun
       ELSE IF home_button
       THEN /\ session_state' =
                  Put(Put(Put(session_state, "current_page", "Home"),
                          "last_nav", "home_button"),
                      "platform_selected",
                      FlagAfterHome(session_state["platform_selected"]))
            /\ home_returned' = TRUE
            /\ Rerun
       ELSE /\ session_state' = Put(session_state, "last_nav", "None")
            /\ d_pc' = "route"
            /\ UNCHANGED <<home_button, reruns, home_returned>>
    /\ UNCHANGED <<platform_select, run_cause, rendered, notdashvars>>

\* main.py:113-119  page routing.
DashRoute ==
    /\ d_pc = "route"
    /\ LET page == session_state["current_page"] IN
       IF page \in PageFunctions
       THEN /\ rendered' = page
            /\ d_pc' = "idle"
            /\ UNCHANGED <<session_state, home_button, reruns>>
       ELSE /\ session_state' = Put(session_state, "current_page", RouteTarget(page))
            /\ Rerun
            /\ UNCHANGED rendered
    /\ UNCHANGED <<platform_select, run_cause, home_returned, notdashvars>>

\* A browser opens the dashboard: the first script run starts.
InitDashboard ==
    /\ st_out = <<>>
    /\ WrapperIdle
    /\ playlists = EmptyMap
    /\ NoRemote
    /\ CachesEmpty
    /\ PaginatorIdle
    /\ DetailsIdle
    /\ NoInputs
    /\ MainIdle
    /\ SettingsDefault
    /\ run_log = <<>>
    /\ session_state = EmptyMap
    /\ platform_select = ""
    /\ home_button = FALSE
    /\ d_pc = "start"
    /\ run_cause = "open"
    /\ reruns = 0
    /\ rendered = ""
    /\ home_returned = FALSE
    /\ wx_api_key = ""
    /\ wx_method = "popular"
    /\ wx_city = "London"
    /\ wx_runs = <<>>

NextDashboard ==
    \/ UserSelects
    \/ UserPressesHome
    \/ UserReruns
    \/ DashStart
    \/ DashSidebar
    \/ DashRoute

SpecDashboard == InitDashboard /\ [][NextDashboard]_vars

\* ------------------------------------------------------- weather.py, main
\* What the sidebar inputs may hold.  The selectbox of popular cities always
\* holds a city (weather.py:381), the text input may be empty (line 383).
WeatherKeys == {"", "OWKEY"}
PopularCities == {"London", "Paris"}
CustomCities == {"", "Oslo"}

\* weather.py:353-354  analyze_clicked is set to False if it is not there
InitFlagAlways(state) == Put(state, "analyze_clicked", FALSE)
InitFlag(state) ==
    IF "analyze_clicked" \in DOMAIN state THEN state
    ELSE Put(state, "analyze_clicked", FALSE)

\* weather.py:369-372 and 385-387  main returns before the button
ReturnsEarly(key, city) == key = "" \/ city = ""

\* What the dashboard and the pipeline leave alone, and the other way round.
notweathervars == <<st_out, wvars, mockvars, cachevars, pgvars, pg_calls, fdvars,
                    inputvars, mainvars, settingvars, run_log, dashvars>>

\* One run of main (weather.py:345-450) with the widgets holding key, method
\* and city and the button reading pressed.  The requests of the run: the
\* current weather (line 396) and, if it came, the forecast and the air
\* quality (lines 434, 439).
WeatherMain(key, method, city, pressed) ==
    /\ Len(wx_runs) < MaxWeatherRuns
    /\ wx_api_key' = key
    /\ wx_method' = method
    /\ wx_city' = city
    /\ LET state == InitFlag(session_state)
           clicked == IF ~ReturnsEarly(key, city) /\ pressed
                      THEN Put(state, "analyze_clicked", TRUE)
                      ELSE state
           fetches == ~ReturnsEarly(key, city) /\ clicked["analyze_clicked"] IN
       /\ session_state' = clicked
       /\ \E answered \in IF fetches THEN BOOLEAN ELSE {FALSE} :
             wx_runs' = Append(wx_runs,
                 [key |-> key, city |-> city, pressed |-> pressed,
                  clicked_before |-> state["analyze_clicked"],
                  requests |-> IF ~fetches THEN <<>>
                               ELSE IF answered
                               THEN <<"weather", "forecast", "air_pollution">>
                               ELSE <<"weather">>])
    /\ UNCHANGED notweathervars

\* The widgets of the sidebar that the last run has drawn.
KeyInputDrawn == wx_runs # <<>>
CityInputsDrawn == wx_runs # <<>> /\ wx_api_key # ""
ButtonDrawn == wx_runs # <<>> /\ ~ReturnsEarly(wx_api_key, wx_city)

\* The page is shown with the widgets as they are: the first run, or a rerun
\* that no widget of the page has caused.
WeatherShown == WeatherMain(wx_api_key, wx_method, wx_city, FALSE)

\* The user types or clears the API key (line 366).
WeatherEditKey ==
    /\ KeyInputDrawn
    /\ \E k \in WeatherKeys \ {wx_api_key} : WeatherMain(k, wx_method, wx_city, FALSE)

\* The user switches the input method (lines 376-383): the selectbox comes
\* up with its first city, the text input empty.
WeatherSwitchMethod ==
    /\ CityInputsDrawn
    /\ IF wx_method = "popular"
       THEN WeatherMain(wx_api_key, "custom", "", FALSE)
       ELSE WeatherMain(wx_api_key, "popular", "London", FALSE)

\* The user picks or types another city (lines 381, 383).
WeatherEditCity ==
    /\ CityInputsDrawn
    /\ \E c \in (IF wx_method = "popular" THEN PopularCities ELSE CustomCities)
                \ {wx_city} :
          WeatherMain(wx_api_key, wx_method, c, FALSE)

\* The user presses "Get Weather Data" (line 389).
WeatherPress ==
    /\ ButtonDrawn
    /\ WeatherMain(wx_api_key, wx_method, wx_city, TRUE)

\* The user leaves the page and comes back: the widgets of the page are new,
\* st.session_state is as it was.
WeatherReturn ==
    /\ wx_runs # <<>>
    /\ WeatherMain("", "popular", "London", FALSE)

InitWeather ==
    /\ st_out = <<>>
    /\ WrapperIdle
    /\ playlists = EmptyMap
    /\ NoRemote
    /\ CachesEmpty
    /\ PaginatorIdle
    /\ DetailsIdle
    /\ NoInputs
    /\ MainIdle
    /\ SettingsDefault
    /\ run_log = <<>>
    /\ PagesIdle

NextWeather ==
    \/ WeatherShown
    \/ WeatherEditKey
    \/ WeatherSwitchMethod
    \/ WeatherEditCity
    \/ WeatherPress
    \/ WeatherReturn

SpecWeather == InitWeather /\ [][NextWeather]_vars

\* ------------------------------------------------------------------ claims
\* The classification the claims speak of, stated on its own: an outcome that
\* raises an HTTP error of status 403 or 429.
Is403or429(o) == o.raises /\ o.err.kind = "HttpError" /\ o.err.status \in {403, 429}

\* Number of leading 403/429 failures of a script.
RECURSIVE LeadingQuota(_)
LeadingQuota(s) ==
    IF s # <<>> /\ Is403or429(Head(s)) THEN 1 + LeadingQuota(Tail(s)) ELSE 0

RECURSIVE SumSeq(_)
SumSeq(s) == IF s = <<>> THEN 0 ELSE Head(s) + SumSeq(Tail(s))

WrapperDone == w_pc \in {"returned", "raised"}

\* C4: a wrapped call that fails k times with 403/429 and then succeeds, with
\* k < retries, is invoked exactly k+1 times, returns, and the wrapper has
\* slept initial_delay * (2^k - 1) in total.
C4_SucceedsAfterKFailures ==
    LET k == LeadingQuota(w_script) IN
    (w_pc # "idle" /\ k < w_retries /\ ~FuncOutcome(w_script, k + 1).raises) =>
        /\ w_calls <= k + 1
        /\ WrapperDone =>
              /\ w_pc = "returned"
              /\ w_exc = NoError
              /\ w_calls = k + 1
              /\ SumSeq(w_sleeps) = w_initial_delay * (2^k - 1)

C4_Witness ==
    /\ w_pc = "returned"
    /\ w_retries = 3
    /\ LeadingQuota(w_script) = 2
    /\ w_calls = 3
    /\ w_initial_delay = 2
    /\ SumSeq(w_sleeps) = 6

\* C5: a non-retriable error on the first attempt is raised at once: one
\* invocation, no sleep, loop index still 0, and the error raised is the
\* function's own.
C5_FatalFirstAttempt ==
    (w_pc # "idle" /\ w_script # <<>> /\ w_script[1].raises /\ ~Is403or429(w_script[1])) =>
        /\ w_calls <= 1
        /\ w_sleeps = <<>>
        /\ w_i = 0
        /\ w_delay = w_initial_delay
        /\ w_calls = 1 => (w_pc = "raised" /\ w_exc = w_script[1].err)

C5_Witness ==
    /\ w_pc = "raised"
    /\ w_calls = 1
    /\ w_script[1] = Raises(NotFoundError)
    /\ w_exc = NotFoundError
    /\ w_sleeps = <<>>

\* C8: the k-th sleep of an operation lasts initial_delay * 2^(k-1), the
\* current delay is initial_delay * 2^(failed attempts) throughout the
\* operation (never reset), and an operation starts at initial_delay.
C8_DelayGrowth ==
    w_pc # "idle" =>
        /\ Len(w_sleeps) = w_i
        /\ \A k \in 1..Len(w_sleeps) : w_sleeps[k] = w_initial_delay * 2^(k - 1)
        /\ w_delay = w_initial_delay * 2^(Len(w_sleeps))
        /\ w_calls = 0 => w_delay = w_initial_delay

C8_Witness ==
    /\ w_ops = 2
    /\ w_initial_delay = 2
    /\ Len(w_sleeps) = 3
    /\ w_sleeps[3] = 8
    /\ w_delay = 16

\* C9: when all `retries` attempts fail with 403/429 the function is invoked
\* exactly `retries` times, never more, and the wrapper raises the "Max
\* retries exceeded" exception, which it raises in no other case.
C9_ExhaustionIsTerminal ==
    /\ (w_pc # "idle" /\ LeadingQuota(w_script) >= w_retries) =>
          /\ w_calls <= w_retries
          /\ WrapperDone =>
                (w_pc = "raised" /\ w_exc = MaxRetriesError /\ w_calls = w_retries)
    /\ w_pc = "raised" =>
          (w_exc = MaxRetriesError <=> LeadingQuota(w_script) >= w_retries)

C9_Witness ==
    /\ w_pc = "raised"
    /\ w_retries = 3
    /\ w_calls = 3
    /\ w_exc = MaxRetriesError
    /\ LeadingQuota(w_script) = 4

\* The playlist the current call of get_video_ids reads.
Chain == playlists[pg_playlist]

\* Items of pages 1..n of a chain, in page order.
RECURSIVE ConcatPages(_, _)
ConcatPages(pages, n) ==
    IF n = 0 THEN <<>> ELSE ConcatPages(pages, n - 1) \o pages[n]

AllItems(chain) == ConcatPages(chain.pages, Len(chain.pages))

\* Each page but the last carries a token and the last carries none.
FiniteChain(chain) == chain.last_next = 0

NoDuplicates(s) == \A a, b \in 1..Len(s) : s[a] = s[b] => a = b

Err403or429(e) == e.kind = "HttpError" /\ e.status \in {403, 429}

\* C1: over a finite chain of pages none of whose requests fails,
\* get_video_ids returns the concatenation of the pages' ids in page order.
C1_ReturnsConcatenation ==
    (pg_pc = "returned" /\ FiniteChain(Chain) /\ Chain.fault = NoFault) =>
        /\ pg_result = AllItems(Chain)
        /\ pg_error = NoError

C1_Witness ==
    /\ pg_pc = "returned"
    /\ pg_fetches = 2
    /\ Chain.fault = NoFault
    /\ Chain.pages = <<(<<"v3", "v1">>), (<<"v2">>)>>
    /\ pg_result = <<"v3", "v1", "v2">>

\* C2: when the request for some page keeps failing with 403/429 for at least
\* max-attempts attempts, get_video_ids returns the ids of the pages before
\* that page, together with a failure signal.
C2_KeepsPartialResult ==
    (/\ pg_pc = "returned"
     /\ pg_fetches > 0
     /\ FiniteChain(Chain)
     /\ Chain.fault # NoFault
     /\ Err403or429(Chain.fault.err)
     /\ Chain.fault.fails >= DefaultRetries) =>
        /\ pg_result = ConcatPages(Chain.pages, Chain.fault.page - 1)
        /\ pg_error # NoError

\* C3: when the request for one page fails k < max-attempts times with
\* 403/429 and would then succeed, get_video_ids returns the ids of all
\* pages.
C3_RetriesUntilSuccess ==
    (/\ pg_pc = "returned"
     /\ pg_fetches > 0
     /\ FiniteChain(Chain)
     /\ Chain.fault # NoFault
     /\ Err403or429(Chain.fault.err)
     /\ Chain.fault.fails < DefaultRetries) =>
        pg_result = AllItems(Chain)

\* C10: if no token leads back to a page already served and the pages hold
\* pairwise different ids, the list accumulated by a call of get_video_ids
\* holds no id twice, at any step and in the result.
C10_NoDuplicateIds ==
    (pg_pc # "idle" /\ FiniteChain(Chain) /\ NoDuplicates(AllItems(Chain))) =>
        /\ NoDuplicates(video_ids)
        /\ NoDuplicates(pg_result)

C10_Witness ==
    /\ pg_pc = "fetch"
    /\ FiniteChain(Chain)
    /\ NoDuplicates(AllItems(Chain))
    /\ Len(Chain.pages) = 2
    /\ video_ids = <<"v1", "v2">>
    /\ pg_request = 2

\* An identifier failed at the resolve-id or the metadata stage: it has no
\* channel record.
FailedEarly(o) == o.stats = <<>>

\* The video records an identifier contributes: those fetch_video_details
\* returned for it, under its channel's name.
Contribution(o) ==
    [k \in 1..Len(o.details) |->
        [Video_URL |-> o.details[k].Video_URL, Channel |-> o.stats[1].Channel_name]]

RECURSIVE ChannelRecordsOf(_)
ChannelRecordsOf(outs) ==
    IF outs = <<>> THEN <<>>
    ELSE (IF FailedEarly(Head(outs)) THEN <<>> ELSE Head(outs).stats)
         \o ChannelRecordsOf(Tail(outs))

RECURSIVE VideoRecordsOf(_)
VideoRecordsOf(outs) ==
    IF outs = <<>> THEN <<>>
    ELSE (IF FailedEarly(Head(outs)) THEN <<>> ELSE Contribution(Head(outs)))
         \o VideoRecordsOf(Tail(outs))

\* The run of the handler went through the loop and is over.
RunOver == pc = "done" /\ api_key # "" /\ channel_names # <<>>

\* C6: a run handles every identifier of the list, in order; those that fail
\* at the resolve-id or metadata stage contribute nothing, and the channel
\* record and video records of every other one are in the result.  With
\* exactly one failure among N, the N-1 others' channel records are there.
C6_OthersStillProcessed ==
    RunOver =>
        /\ Len(outcomes) = Len(channel_names)
        /\ \A j \in 1..Len(outcomes) :
              /\ outcomes[j].name = channel_names[j]
              /\ ~FailedEarly(outcomes[j]) =>
                    /\ remote_search[outcomes[j].name].items # <<>>
                    /\ outcomes[j].channel_id =
                          remote_search[outcomes[j].name].items[1].channelId
                    /\ remote_channels[outcomes[j].channel_id].items # <<>>
                    /\ outcomes[j].stats[1].Channel_name =
                          remote_channels[outcomes[j].channel_id].items[1].title
        /\ channel_data = ChannelRecordsOf(outcomes)
        /\ video_details_all = VideoRecordsOf(outcomes)
        /\ Cardinality({j \in 1..Len(outcomes) : FailedEarly(outcomes[j])}) = 1 =>
              Len(channel_data) = Len(channel_names) - 1

C6_Witness ==
    /\ RunOver
    /\ Len(channel_names) = 2
    /\ FailedEarly(outcomes[1])
    /\ ~FailedEarly(outcomes[2])
    /\ Len(channel_data) = 1
    /\ Len(video_details_all) = 2

\* C7: every run of the handler over the same identifier list, with the mock
\* answering each request as before, ends with the same channel_data and the
\* same video_details_all.
C7_RunsAgree ==
    \A a, b \in 1..Len(runs) : runs[a] = runs[b]

C7_Witness ==
    /\ Len(runs) = 2
    /\ Len(runs[2].channel_data) = 2
    /\ Len(runs[2].video_details_all) = 3
    /\ cache_details # EmptyMap


\* The requests of the current call of get_video_ids asked for pages
\* 1, 2, ..., in this order, each once.
ServedInOrder == \A k \in 1..Len(pg_served) : pg_served[k] = k

\* What the current call of get_video_ids does over a finite chain: a request
\* follows only a page that carried a token, and no page is asked for twice.
C11_RequestsFollowTokens ==
    (pg_pc # "idle" /\ FiniteChain(Chain)) =>
        /\ ServedInOrder
        /\ Len(pg_served) <= Len(Chain.pages)
        /\ pg_fetches <= Len(Chain.pages)
        /\ \A k \in 1..(Len(pg_served) - 1) : PageToken(Chain, pg_served[k]) # 0
        /\ pg_pc = "fetch" =>
              /\ pg_request = Len(pg_served) + 1
              /\ pg_fetches = Len(pg_served)
              /\ pg_served # <<>> => PageToken(Chain, pg_served[Len(pg_served)]) # 0
        /\ (pg_pc = "returned" /\ pg_fetches > 0 /\ pg_error = NoError) =>
              /\ pg_fetches = Len(Chain.pages)
              /\ Len(pg_served) = Len(Chain.pages)
              /\ PageToken(Chain, pg_served[Len(pg_served)]) = 0

\* C11: over a finite chain get_video_ids asks for each page once, in order,
\* asks for nothing after the first page without a token, and every call
\* returns.
C11_TerminatesAtTokenlessPage ==
    /\ []C11_RequestsFollowTokens
    /\ (pg_pc = "fetch" /\ FiniteChain(Chain)) ~> (pg_pc = "returned")

C11_Witness ==
    /\ pg_pc = "returned"
    /\ FiniteChain(Chain)
    /\ Len(Chain.pages) = 2
    /\ pg_served = <<1, 2>>
    /\ pg_fetches = 2
    /\ next_page_token = 0

\* Order of two quotients <<numerator, denominator>> with positive
\* denominators.
QuotLess(a, b) == a[1] * b[2] < b[1] * a[2]
QuotLeq(a, b) == a[1] * b[2] <= b[1] * a[2]

\* The handler is in its loop or past it.
InRun == pc \notin {"idle"} /\ api_key # "" /\ channel_names # <<>>

\* C12: progress_bar.progress is called once for each identifier that is
\* finished, abandoned or not; the i-th value is i/N, so the values increase
\* strictly, lie in (0, 1], and the last one of a run is 1.
C12_ProgressAfterEachIdentifier ==
    InRun =>
        LET N == Len(channel_names) IN
        /\ Len(progress) = Len(outcomes)
        /\ pc \notin {"report", "done"} => Len(progress) = i - 1
        /\ \A k \in 1..Len(progress) :
              /\ progress[k] = <<k, N>>
              /\ QuotLess(<<0, 1>>, progress[k])
              /\ QuotLeq(progress[k], <<1, 1>>)
              /\ k > 1 => QuotLess(progress[k - 1], progress[k])
        /\ pc \in {"report", "done"} =>
              /\ Len(progress) = N
              /\ progress[N][1] = progress[N][2]

C12_Witness ==
    /\ RunOver
    /\ Len(channel_names) = 2
    /\ FailedEarly(outcomes[1])
    /\ outcomes[2].details # <<>>
    /\ progress = <<(<<1, 2>>), (<<2, 2>>)>>

\* The ids among `ids` for which videos().list answered with an item, in
\* the order of `ids`.
RECURSIVE AnsweredIds(_)
AnsweredIds(ids) ==
    IF ids = <<>> THEN <<>>
    ELSE (IF /\ Head(ids) \in DOMAIN remote_videos
             /\ remote_videos[Head(ids)].items # <<>>
          THEN <<Head(ids)>> ELSE <<>>) \o AnsweredIds(Tail(ids))

UrlsOf(details) == [k \in 1..Len(details) |-> details[k].Video_URL]

\* C13: the requests of a run are made identifier by identifier in input
\* order (none for a later identifier before one for an earlier identifier);
\* the channel records and video records of the result follow the input order
\* of the identifiers, and an identifier's video records follow the order of
\* the ids its playlist's pages returned.
C13_SequentialInInputOrder ==
    InRun =>
        /\ \A a, b \in 1..Len(api_calls) :
              a < b => api_calls[a].ident <= api_calls[b].ident
        /\ \A a \in 1..Len(api_calls) : api_calls[a].ident \in 1..i
        /\ \A j \in 1..Len(outcomes) :
              /\ outcomes[j].name = channel_names[j]
              /\ outcomes[j].video_ids # <<>> =>
                    outcomes[j].video_ids =
                        AllItems(playlists[outcomes[j].stats[1].playlist_id])
              /\ outcomes[j].details # <<>> =>
                    UrlsOf(outcomes[j].details) = AnsweredIds(outcomes[j].video_ids)
        /\ RunOver =>
              /\ channel_data = ChannelRecordsOf(outcomes)
              /\ video_details_all = VideoRecordsOf(outcomes)

C13_Witness ==
    /\ RunOver
    /\ channel_names = <<"beta", "alpha">>
    /\ Len(channel_data) = 2
    /\ channel_data[1] # channel_data[2]
    /\ Len(outcomes[1].details) = 2
    /\ Len(outcomes[2].details) = 1
    /\ UrlsOf(video_details_all) = <<"v1", "v2", "v1">>
    /\ \E a \in 1..Len(api_calls) : api_calls[a].ident = 2

\* Steps of the traversal of the current identifier, read off pc, i and
\* outcomes: it stays in its stage, moves to another stage, or is finished
\* (the loop goes on to the next identifier or leaves for the report),
\* abandoned if it has no channel record and done otherwise.
Stays == pc' = pc /\ i' = i /\ outcomes' = outcomes
Moves(to) == pc' = to /\ i' = i /\ outcomes' = outcomes
Finished ==
    /\ i' = i + 1
    /\ outcomes' # outcomes
    /\ Len(outcomes') = i
    /\ pc' = (IF i < Len(channel_names) THEN "ResolvingId" ELSE "report")
Abandons == Finished /\ FailedEarly(outcomes'[i])
Completes == Finished /\ ~FailedEarly(outcomes'[i])

\* Pending -> ResolvingId for the first identifier, and what surrounds the
\* loop.
OutsideLoop ==
    /\ pc \in {"idle", "done"} =>
          Stays \/ (pc' = "ResolvingId" /\ i' = 1 /\ outcomes' = <<>>) \/ pc' = "done"
    /\ pc = "report" => Stays \/ Moves("done")

EveryTraversalEnds ==
    RunOver =>
        /\ Len(outcomes) = Len(channel_names)
        /\ \A j \in 1..Len(outcomes) : outcomes[j].name = channel_names[j]

\* C14 as stated: ResolvingId -> FetchingMetadata -> FetchingMemberList ->
\* FetchingMemberDetails -> Done with no stage skipped and none revisited,
\* Abandoned from ResolvingId or FetchingMetadata only.
C14_StageOrder ==
    [][/\ OutsideLoop
       /\ pc = "ResolvingId" => Stays \/ Moves("FetchingMetadata") \/ Abandons
       /\ pc = "FetchingMetadata" => Stays \/ Moves("FetchingMemberList") \/ Abandons
       /\ pc = "FetchingMemberList" => Stays \/ Moves("FetchingMemberDetails")
       /\ pc = "FetchingMemberDetails" => Stays \/ Completes]_vars

\* C14 amended: the same order, except that FetchingMemberDetails is entered
\* only with a non-empty member list; with an empty one the traversal goes
\* from FetchingMemberList to Done.  Every identifier of a run that is over
\* was finished.
C14_StageOrderSkippingEmptyDetails ==
    /\ [][/\ OutsideLoop
          /\ pc = "ResolvingId" => Stays \/ Moves("FetchingMetadata") \/ Abandons
          /\ pc = "FetchingMetadata" => Stays \/ Moves("FetchingMemberList") \/ Abandons
          /\ pc = "FetchingMemberList" =>
                \/ Stays
                \/ Moves("FetchingMemberDetails") /\ pg_result # <<>>
                \/ Completes /\ pg_pc = "returned" /\ pg_result = <<>>
          /\ pc = "FetchingMemberDetails" => Stays \/ Completes]_vars
    /\ []EveryTraversalEnds

C14_Witness ==
    /\ RunOver
    /\ Len(outcomes) = 2
    /\ ~FailedEarly(outcomes[1])
    /\ outcomes[1].video_ids = <<>>
    /\ playlists[outcomes[1].stats[1].playlist_id].fault = NoFault
    /\ outcomes[2].details # <<>>

\* The member-list stage of an identifier failed: a request for a page of
\* its playlist raised.
ListFailed(o) ==
    /\ ~FailedEarly(o)
    /\ playlists[o.stats[1].playlist_id].fault # NoFault

\* The member-detail stage of an identifier failed: a request for one of its
\* videos raised.
DetailFailed(o) ==
    /\ o.video_ids # <<>>
    /\ \E k \in 1..Len(o.video_ids) :
          /\ o.video_ids[k] \in DOMAIN remote_videos
          /\ RaisesInBody(remote_videos[o.video_ids[k]])

\* An identifier has a channel record exactly if the mock answered its search
\* and its channel request with an item.
ProcessedAsAnswered(o) ==
    ~FailedEarly(o) <=>
        /\ ~RaisesInBody(remote_search[o.name])
        /\ remote_search[o.name].items # <<>>
        /\ LET cid == remote_search[o.name].items[1].channelId IN
           /\ ~RaisesInBody(remote_channels[cid])
           /\ remote_channels[cid].items # <<>>

IsPrefix(s, t) == Len(s) <= Len(t) /\ \A k \in 1..Len(s) : s[k] = t[k]

\* C15: an identifier whose member-list or member-detail stage failed keeps
\* its channel record and contributes no video record; the records of the
\* identifiers before it stay as they were, the run goes on, and every
\* identifier after it is handled as the remote answers it.
C15_LateFailureIsolated ==
    InRun =>
        \A j \in 1..Len(outcomes) :
            (ListFailed(outcomes[j]) \/ DetailFailed(outcomes[j])) =>
                /\ outcomes[j].details = <<>>
                /\ video_details_all = VideoRecordsOf(outcomes)
                /\ IsPrefix(ChannelRecordsOf(outcomes), channel_data)
                /\ pc \in {"ResolvingId", "FetchingMetadata", "FetchingMemberList",
                           "FetchingMemberDetails"} => i = Len(outcomes) + 1
                /\ pc \in {"report", "done"} =>
                      /\ Len(outcomes) = Len(channel_names)
                      /\ channel_data = ChannelRecordsOf(outcomes)
                      /\ \A k \in 1..Len(outcomes) :
                            /\ outcomes[k].name = channel_names[k]
                            /\ ProcessedAsAnswered(outcomes[k])

C15_Witness ==
    /\ RunOver
    /\ Len(outcomes) = 2
    /\ DetailFailed(outcomes[1])
    /\ outcomes[1].video_ids = <<"v1", "v2">>
    /\ Len(outcomes[2].details) = 1
    /\ Len(video_details_all) = 1
    /\ Len(channel_data) = 2

RECURSIVE Count(_, _)
Count(s, x) ==
    IF s = <<>> THEN 0 ELSE (IF Head(s) = x THEN 1 ELSE 0) + Count(Tail(s), x)

Shown(x) == Count(st_out, x) > 0

\* C16: a run in which no identifier yields a channel record ends with the
\* error "No channel data was fetched" shown once, as the last message, and
\* with no success message, comparison, chart or report; a run in which some
\* identifier yields a channel record never shows that error.
C16_TerminalErrorIffAllFail ==
    InRun =>
        /\ pc # "done" => ~Shown("error: no channel data")
        /\ pc = "done" =>
              LET allFailed == \A j \in 1..Len(outcomes) : FailedEarly(outcomes[j]) IN
              /\ allFailed =>
                    /\ Count(st_out, "error: no channel data") = 1
                    /\ st_out[Len(st_out)] = "error: no channel data"
                    /\ ~Shown("success")
                    /\ ~Shown("comparison")
                    /\ ~Shown("charts")
                    /\ ~Shown("report")
              /\ ~allFailed =>
                    /\ ~Shown("error: no channel data")
                    /\ Shown("comparison")

C16_Witness ==
    /\ RunOver
    /\ Len(outcomes) = 2
    /\ FailedEarly(outcomes[1])
    /\ FailedEarly(outcomes[2])
    /\ outcomes[1].channel_id = ""
    /\ outcomes[2].channel_id # ""
    /\ Count(st_out, "error: no channel data") = 1

\* The invocations of func made so far that raised a 403/429 HTTP error.
QuotaFailures == {n \in 1..w_calls : Is403or429(FuncOutcome(w_script, n))}

\* The invocations of func made so far that raised anything else.
OtherFailures ==
    {n \in 1..w_calls : /\ FuncOutcome(w_script, n).raises
                        /\ ~Is403or429(FuncOutcome(w_script, n))}

\* C17: the wrapper sleeps after a failure exactly if the failure is an HTTP
\* error of status 403 or 429; a failure with any other HTTP status (or of
\* any other kind) ends the operation at once: it is the last invocation, no
\* sleep follows it, and the wrapper raises that error.
C17_RetriableIff403or429 ==
    w_pc # "idle" =>
        /\ Len(w_sleeps) = Cardinality(QuotaFailures)
        /\ \A n \in QuotaFailures : Len(w_sleeps) >= n
        /\ \A n \in OtherFailures :
              /\ n = w_calls
              /\ Len(w_sleeps) = n - 1
              /\ w_pc = "raised"
              /\ w_exc = FuncOutcome(w_script, n).err
        /\ (w_pc = "loop" /\ w_calls > 0) => QuotaFailures = 1..w_calls

C17_Witness ==
    /\ w_pc = "raised"
    /\ w_retries = 3
    /\ w_script = <<Raises(RateError), Raises(ServerError)>>
    /\ w_calls = 2
    /\ Len(w_sleeps) = 1
    /\ w_exc = ServerError

\* The invocations of func made so far that raised an exception other than
\* HttpError (a connection error, a timeout).
TransportFailures ==
    {n \in 1..w_calls : /\ FuncOutcome(w_script, n).raises
                        /\ FuncOutcome(w_script, n).err.kind = "Exception"}

LacksField(answer) == answer.missing # ""

\* The requests of the run for which the remote gave a malformed response.
MalformedSearch(name) ==
    name \in DOMAIN remote_search /\ LacksField(remote_search[name])
MalformedChannel(cid) ==
    cid \in DOMAIN remote_channels /\ LacksField(remote_channels[cid])
MalformedPage(pl) ==
    pl \in DOMAIN playlists /\ playlists[pl].fault.err = KeyError
MalformedVideo(ids) ==
    \E k \in 1..Len(ids) :
        ids[k] \in DOMAIN remote_videos /\ LacksField(remote_videos[ids[k]])

\* The arguments of the requests the run made to an endpoint for its j-th
\* identifier, in order.
CallsOf(j, endpoint) ==
    LET ForIt(c) == c.ident = j /\ c.endpoint = endpoint
        made == SelectSeq(api_calls, ForIt) IN
    [k \in 1..Len(made) |-> made[k].arg]

\* C19: a malformed response makes its stage yield nothing: get_channel_id
\* and get_channel_stats return None, get_video_ids and fetch_video_details
\* return []; the request is not made again, an error message is shown, and
\* the loop goes on to the end of the list.
C19_MalformedIsEmptyResult ==
    InRun =>
        /\ \A j \in 1..Len(outcomes) :
              LET o == outcomes[j] IN
              /\ MalformedSearch(o.name) => (o.channel_id = "" /\ o.stats = <<>>)
              /\ (o.channel_id # "" /\ MalformedChannel(o.channel_id)) => o.stats = <<>>
              /\ (o.stats # <<>> /\ MalformedPage(o.stats[1].playlist_id)) =>
                    (o.video_ids = <<>> /\ o.details = <<>>)
              /\ (o.video_ids # <<>> /\ MalformedVideo(o.video_ids)) => o.details = <<>>
              /\ \/ MalformedSearch(o.name)
                 \/ o.channel_id # "" /\ MalformedChannel(o.channel_id)
                 \/ o.stats # <<>> /\ MalformedPage(o.stats[1].playlist_id)
                 \/ o.video_ids # <<>> /\ MalformedVideo(o.video_ids)
                 => \E m \in 1..Len(st_out) :
                       st_out[m] \in {"error: channel id", "error: channel stats",
                                      "error: video ids", "error: video details"}
        /\ \A j \in 1..Len(outcomes) :
              /\ Len(CallsOf(j, "search")) <= 1
              /\ Len(CallsOf(j, "channels")) <= 1
              /\ NoDuplicates(CallsOf(j, "playlistItems"))
              /\ IsPrefix(CallsOf(j, "videos"), outcomes[j].video_ids)
              /\ \A k \in 1..(Len(CallsOf(j, "videos")) - 1) :
                    ~LacksField(remote_videos[CallsOf(j, "videos")[k]])
        /\ pc \in {"report", "done"} => Len(outcomes) = Len(channel_names)

C19_Witness ==
    /\ RunOver
    /\ CallsOf(1, "channels") # <<>>
    /\ CallsOf(2, "videos") # <<>>
    /\ Len(outcomes) = 2
    /\ MalformedChannel(outcomes[1].channel_id)
    /\ outcomes[1].stats = <<>>
    /\ outcomes[2].video_ids = <<"v1", "v2">>
    /\ MalformedVideo(outcomes[2].video_ids)
    /\ outcomes[2].details = <<>>
    /\ Len(channel_data) = 1

\* No request for one of the ids raises in the body of fetch_video_details.
FailureFree(ids) ==
    \A k \in 1..Len(ids) :
        ids[k] \in DOMAIN remote_videos => ~RaisesInBody(remote_videos[ids[k]])

\* C20: a call of fetch_video_details that runs its body asks for the ids of
\* its list one by one, in the order of the list, one request for each
\* element; without a failure the requests are exactly the list, and with
\* one they stop at the request that failed.  A call answered from the cache
\* makes no request.
C20_OneRequestPerId ==
    InRun =>
        /\ \A j \in 1..Len(outcomes) :
              LET ids == outcomes[j].video_ids
                  calls == CallsOf(j, "videos") IN
              /\ IsPrefix(calls, ids)
              /\ (calls # <<>> /\ FailureFree(ids)) => calls = ids
              /\ (calls # <<>> /\ ~FailureFree(ids)) =>
                    /\ RaisesInBody(remote_videos[calls[Len(calls)]])
                    /\ FailureFree(SubSeq(calls, 1, Len(calls) - 1))
              /\ (calls = <<>> /\ ids # <<>> /\ pc # "done") =>
                    CacheHit(cache_details, ids)
        /\ fd_pc = "fetch" =>
              /\ CallsOf(i, "videos") = SubSeq(fd_video_ids, 1, fd_idx - 1)
              /\ FailureFree(CallsOf(i, "videos"))

C20_Witness ==
    /\ RunOver
    /\ outcomes[1].video_ids = <<"v1", "v2">>
    /\ CallsOf(1, "videos") = <<"v1", "v2">>
    /\ Len(outcomes[1].details) = 2
\* ------------------------------------------------------------------ claims
\* The four caches, one per cached operation.
CachesNow == <<cache_channel_id, cache_stats, cache_video_ids, cache_details>>
CachesNext == <<cache_channel_id', cache_stats', cache_video_ids', cache_details'>>

\* Every stored entry is younger than 3600 seconds.
AllYoungerThanTtl ==
    \A n \in 1..4 : \A k \in DOMAIN CachesNow[n] :
        CachesNow[n][k].age >= 0 /\ CachesNow[n][k].age < 3600

\* The step neither makes a remote call nor touches the cache.
ServedFromCache(cache, cacheNext) == api_calls' = api_calls /\ cacheNext = cache

\* The step makes exactly the remote call given.
CallsRemote(endpoint, arg) == api_calls' = Append(api_calls, ApiCall(i, endpoint, arg))

\* The cache holds, since this step, the value given under the key.
StoredNow(cacheNext, key, value) ==
    /\ key \in DOMAIN cacheNext
    /\ cacheNext[key].value = value
    /\ cacheNext[key].age = 0

\* The step is one of the pipeline, not the passing of time.
PipelineMoves ==
    <<pc, i, pg_pc, pg_fetches, fd_pc, fd_idx>>' # <<pc, i, pg_pc, pg_fetches, fd_pc, fd_idx>>

\* A call of get_channel_id: served from the entry of the name, or requested
\* and stored.
LookupChannelId ==
    (pc = "ResolvingId" /\ PipelineMoves) =>
        LET name == channel_names[i]
            returned == IF pc' = "FetchingMetadata" THEN channel_id' ELSE "" IN
        IF name \in DOMAIN cache_channel_id
        THEN /\ ServedFromCache(cache_channel_id, cache_channel_id')
             /\ returned = cache_channel_id[name].value
        ELSE /\ CallsRemote("search", name)
             /\ StoredNow(cache_channel_id', name, returned)

\* A call of get_channel_stats.
LookupChannelStats ==
    (pc = "FetchingMetadata" /\ PipelineMoves) =>
        LET returned == IF pc' = "FetchingMemberList" THEN channel_stats' ELSE <<>> IN
        IF channel_id \in DOMAIN cache_stats
        THEN /\ ServedFromCache(cache_stats, cache_stats')
             /\ returned = cache_stats[channel_id].value
        ELSE /\ CallsRemote("channels", channel_id)
             /\ StoredNow(cache_stats', channel_id, returned)

\* A call of get_video_ids: served at once, or its body runs request by
\* request and the value it returns is stored.
LookupVideoIds ==
    /\ (pc = "FetchingMemberList" /\ pg_pc = "idle" /\ PipelineMoves) =>
          LET pl == channel_stats[1].playlist_id IN
          IF pl \in DOMAIN cache_video_ids
          THEN /\ ServedFromCache(cache_video_ids, cache_video_ids')
               /\ pg_pc' = "returned"
               /\ pg_result' = cache_video_ids[pl].value
          ELSE pg_pc' = "fetch" /\ cache_video_ids' = cache_video_ids
    /\ (pg_pc = "fetch" /\ PipelineMoves) =>
          /\ CallsRemote("playlistItems", <<pg_playlist, pg_request>>)
          /\ IF pg_pc' = "returned"
             THEN StoredNow(cache_video_ids', pg_playlist, pg_result')
             ELSE cache_video_ids' = cache_video_ids

\* A call of fetch_video_details.
LookupVideoDetails ==
    /\ (pc = "FetchingMemberDetails" /\ fd_pc = "idle" /\ PipelineMoves) =>
          IF pg_result \in DOMAIN cache_details
          THEN /\ ServedFromCache(cache_details, cache_details')
               /\ fd_pc' = "returned"
               /\ fd_result' = cache_details[pg_result].value
          ELSE fd_pc' = "fetch" /\ cache_details' = cache_details
    /\ (fd_pc = "fetch" /\ PipelineMoves) =>
          /\ Len(api_calls') = Len(api_calls) + 1
          /\ api_calls'[Len(api_calls')].endpoint = "videos"
          /\ IF fd_pc' = "returned"
             THEN StoredNow(cache_details', fd_video_ids, fd_result')
             ELSE cache_details' = cache_details

\* Entries leave a cache only when d seconds pass that take them to 3600, and
\* the entries that stay have grown older by d.
OnlyExpiryRemoves ==
    (\E n \in 1..4 : \E k \in DOMAIN CachesNow[n] :
        k \notin DOMAIN CachesNext[n] \/ CachesNext[n][k].age > CachesNow[n][k].age)
    => \E d \in {1800, 3599, 3600} :
          \A n \in 1..4 :
             /\ DOMAIN CachesNext[n] \subseteq DOMAIN CachesNow[n]
             /\ \A k \in DOMAIN CachesNow[n] :
                   IF CachesNow[n][k].age + d < 3600
                   THEN /\ k \in DOMAIN CachesNext[n]
                        /\ CachesNext[n][k].value = CachesNow[n][k].value
                        /\ CachesNext[n][k].age = CachesNow[n][k].age + d
                   ELSE k \notin DOMAIN CachesNext[n]

\* C21: each fetch operation is cached under its parameters for 3600 seconds:
\* a call with the same parameters before the entry is 3600 seconds old
\* returns the stored result without a remote call; a call that finds no
\* entry, or whose entry has expired, makes the remote call again and stores the
\* new result; entries leave the cache by expiry only.
C21_CachedForTtl ==
    /\ []AllYoungerThanTtl
    /\ [][/\ LookupChannelId
          /\ LookupChannelStats
          /\ LookupVideoIds
          /\ LookupVideoDetails
          /\ OnlyExpiryRemoves]_vars

\* In a second run the channel id has been requested again after the expiry
\* of its entry, while the statistics are served from an entry that has
\* aged without expiring.
C21_Witness ==
    /\ Len(runs) = 1
    /\ pc = "FetchingMemberList"
    /\ Len(api_calls) = 1
    /\ api_calls[1].endpoint = "search"
    /\ channel_names[1] \in DOMAIN cache_channel_id
    /\ cache_channel_id[channel_names[1]].age = 0
    /\ channel_id \in DOMAIN cache_stats
    /\ cache_stats[channel_id].age > 0

\* C22: when all `retries` attempts fail with 403/429 the wrapper has slept
\* after every one of them, the last included: at the terminal failure it has
\* slept exactly `retries` times, the last time for initial_delay *
\* 2^(retries-1), and initial_delay * (2^retries - 1) in total.
C22_SleepsAfterLastAttempt ==
    (w_pc # "idle" /\ LeadingQuota(w_script) >= w_retries) =>
        /\ w_pc = "loop" => Len(w_sleeps) = w_calls
        /\ w_pc = "raised" =>
              /\ w_exc = MaxRetriesError
              /\ Len(w_sleeps) = w_retries
              /\ w_sleeps[w_retries] = w_initial_delay * 2^(w_retries - 1)
              /\ SumSeq(w_sleeps) = w_initial_delay * (2^w_retries - 1)

\* Three attempts with initial delay 2 have failed: slept 2, 4 and 8.
C22_Witness ==
    /\ w_pc = "raised"
    /\ w_exc = MaxRetriesError
    /\ w_retries = 3
    /\ w_initial_delay = 2
    /\ w_sleeps = <<2, 4, 8>>

AnyDetailRaises(ids) ==
    \E k \in 1..Len(ids) :
        ids[k] \in DOMAIN remote_videos /\ RaisesInBody(remote_videos[ids[k]])

\* One record per id whose answer has items, in the order of the ids.
RECURSIVE RecordsWithItems(_)
RecordsWithItems(ids) ==
    IF ids = <<>> THEN <<>>
    ELSE LET vid == Head(ids)
             answer == remote_videos[vid] IN
         (IF answer.items # <<>>
          THEN <<[Video_URL |-> vid, Channel |-> answer.items[1].channelTitle]>>
          ELSE <<>>)
         \o RecordsWithItems(Tail(ids))

\* C24: fetch_video_details is all-or-nothing: if a detail request raises it
\* returns the empty list, whatever records it has built for earlier ids; if
\* none raises it returns one record per id whose response has items, in
\* input order, so never more records than input ids.
C24_AllOrNothing ==
    fd_pc = "returned" =>
        /\ Len(fd_result) <= Len(fd_video_ids)
        /\ IF AnyDetailRaises(fd_video_ids)
           THEN fd_result = <<>>
           ELSE fd_result = RecordsWithItems(fd_video_ids)

\* The request for the second id has raised after a record was built for the
\* first: the call returns the empty list.
C24_Witness ==
    /\ fd_pc = "returned"
    /\ Len(fd_video_ids) = 2
    /\ fd_idx = 2
    /\ Len(video_details) = 1
    /\ AnyDetailRaises(fd_video_ids)
    /\ fd_result = <<>>

\* Every record of video_details_all is labelled with the Channel_name of a
\* record of channel_data.
LabelledByChannelData ==
    \A k \in 1..Len(video_details_all) :
        \E j \in 1..Len(channel_data) :
            video_details_all[k].Channel = channel_data[j].Channel_name

\* While the member list and the member details of an identifier are being
\* fetched, the record of its channel is the last of channel_data.
RecordAppendedFirst ==
    pc \in {"FetchingMemberList", "FetchingMemberDetails"} =>
        /\ channel_data # <<>>
        /\ channel_data[Len(channel_data)] = channel_stats[1]

\* Within a run channel_data only grows, and the two fetches that follow the
\* append leave it as it is.
RecordKept ==
    /\ pc \notin {"idle", "done"} => IsPrefix(channel_data, channel_data')
    /\ pc \in {"FetchingMemberList", "FetchingMemberDetails"} =>
          channel_data' = channel_data

\* C25: in every state of the collection loop each record of
\* video_details_all carries as 'Channel' the Channel_name of a record
\* already in channel_data, so video_details_all is non-empty only if
\* channel_data is; the channel record is appended before the member list and
\* the member details are fetched and is kept whatever they return.
C25_DetailsBelongToRecordedChannels ==
    /\ [](LabelledByChannelData /\ RecordAppendedFirst)
    /\ [](video_details_all # <<>> => channel_data # <<>>)
    /\ [][RecordKept]_vars

\* Two channels are recorded, the first one's member fetches gave nothing,
\* the second one's gave labelled records.
C25_Witness ==
    /\ pc = "report"
    /\ Len(channel_data) = 2
    /\ outcomes[1].stats # <<>>
    /\ outcomes[1].details = <<>>
    /\ video_details_all # <<>>
    /\ video_details_all[1].Channel = channel_data[2].Channel_name

\* The step is a call of a cached function whose body raised: it has made a
\* request and shown the error message given.
BodyFailed(message) ==
    /\ Len(api_calls') = Len(api_calls) + 1
    /\ st_out' = Append(st_out, message)

\* The cache holds the failure value under the key, with the message shown.
FailureStored(cacheNext, key, failure, message) ==
    /\ key \in DOMAIN cacheNext
    /\ cacheNext[key].value = failure
    /\ cacheNext[key].out = <<message>>

\* The cache holds a failure under the key.
HoldsFailure(cache, key, failure) ==
    /\ key \in DOMAIN cache
    /\ cache[key].value = failure
    /\ cache[key].out # <<>>

\* The step answers from the entry: no request, the entry's messages shown
\* again, the cache as it was.
FailureServed(cache, cacheNext, key) ==
    /\ api_calls' = api_calls
    /\ cacheNext = cache
    /\ st_out' = st_out \o cache[key].out

\* A failed fetch is stored under its parameters like a result.
FailuresAreStored ==
    /\ (pc = "ResolvingId" /\ BodyFailed("error: channel id")) =>
          FailureStored(cache_channel_id', channel_names[i], "", "error: channel id")
    /\ (pc = "FetchingMetadata" /\ BodyFailed("error: channel stats")) =>
          FailureStored(cache_stats', channel_id, <<>>, "error: channel stats")
    /\ (pg_pc = "fetch" /\ BodyFailed("error: video ids")) =>
          FailureStored(cache_video_ids', pg_playlist, <<>>, "error: video ids")
    /\ (fd_pc = "fetch" /\ BodyFailed("error: video details")) =>
          FailureStored(cache_details', fd_video_ids, <<>>, "error: video details")

\* A call that finds a stored failure returns that failure value and makes
\* no request.
FailuresAreServed ==
    /\ (pc = "ResolvingId" /\ PipelineMoves
        /\ HoldsFailure(cache_channel_id, channel_names[i], "")) =>
          /\ FailureServed(cache_channel_id, cache_channel_id', channel_names[i])
          /\ pc' # "FetchingMetadata"
          /\ outcomes'[Len(outcomes')].channel_id = ""
    /\ (pc = "FetchingMetadata" /\ PipelineMoves
        /\ HoldsFailure(cache_stats, channel_id, <<>>)) =>
          /\ FailureServed(cache_stats, cache_stats', channel_id)
          /\ pc' # "FetchingMemberList"
          /\ outcomes'[Len(outcomes')].stats = <<>>
    /\ (pc = "FetchingMemberList" /\ pg_pc = "idle" /\ PipelineMoves
        /\ HoldsFailure(cache_video_ids, channel_stats[1].playlist_id, <<>>)) =>
          /\ FailureServed(cache_video_ids, cache_video_ids', channel_stats[1].playlist_id)
          /\ pg_pc' = "returned"
          /\ pg_result' = <<>>
    /\ (pc = "FetchingMemberDetails" /\ fd_pc = "idle" /\ PipelineMoves
        /\ HoldsFailure(cache_details, pg_result, <<>>)) =>
          /\ FailureServed(cache_details, cache_details', pg_result)
          /\ fd_pc' = "returned"
          /\ fd_result' = <<>>

\* C26: failure results are cached like successes: each cached fetch function
\* turns a failure into a returned value (None or the empty list), which is
\* stored under the parameters of the call; a call with the same parameters
\* while the entry lives returns that failure value, shows its message again
\* and makes no remote call.
C26_FailuresAreCached == [][FailuresAreStored /\ FailuresAreServed]_vars

\* A second run has gone through all four stages without a request and has
\* been served the failure of the detail fetch of the first run.
C26_Witness ==
    /\ Len(runs) = 1
    /\ pc = "FetchingMemberDetails"
    /\ fd_pc = "returned"
    /\ api_calls = <<>>
    /\ fd_result = <<>>
    /\ st_out = <<"error: video details">>

\* The three keys of the dashboard in st.session_state.
CurrentPage == session_state["current_page"]
LastNav == session_state["last_nav"]
PlatformSelected == session_state["platform_selected"]

\* The script run that follows the run in which the Home button was pressed.
RunAfterHomePress == run_cause = "home" /\ reruns >= 1

\* C27: pressing the Home button on any page makes the script run that
\* follows render Home: in that run current_page is 'Home' and
\* platform_selected is False, the selectbox's platform does not navigate
\* away, and last_nav is None once the run is past the sidebar.
C27_HomeButtonRendersHome ==
    RunAfterHomePress =>
        /\ CurrentPage = "Home"
        /\ PlatformSelected = FALSE
        /\ d_pc \in {"route", "idle"} => LastNav = "None"
        /\ d_pc = "idle" => rendered = "Home"

\* C28: once the Home button has returned the session to Home, a script run
\* in which the user neither changes the selectbox nor presses a button leaves
\* current_page at 'Home'.
C28_StaysHomeWithoutInput ==
    [][(home_returned /\ run_cause = "plain" /\ d_pc # "idle")
          => session_state'["current_page"] = "Home"]_vars

\* A script run has come to its end: it has shown a page or called st.rerun().
RunEnded == d_pc = "idle" \/ (d_pc = "start" /\ reruns > 0)

\* C29: at the end of every script run platform_selected is True exactly if
\* current_page is not 'Home', and the page shown is current_page, one of the
\* six keys of page_functions; the legacy name 'Code Analytics' is rewritten
\* to 'Python Code Analytics' and a name without a page function is routed to
\* 'Home'.
C29_FlagTracksPage ==
    LET six == {"Home", "YouTube Analytics", "Business Analytics", "PDF Analytics",
                "Python Code Analytics", "Weather Analytics"} IN
    /\ RunEnded => (PlatformSelected <=> CurrentPage # "Home")
    /\ d_pc = "idle" => (rendered = CurrentPage /\ rendered \in six)
    /\ LegacyRewrite("Code Analytics") = "Python Code Analytics"
    /\ RouteTarget("Settings") = "Home"
    /\ \A p \in six \cup {"Code Analytics", "Settings"} :
          RouteTarget(LegacyRewrite(p)) \in six

\* The Home button has brought the session back from a platform page: Home
\* is shown, the flag is down and the selectbox still holds the platform.
C29_Witness ==
    /\ d_pc = "idle"
    /\ home_returned
    /\ rendered = "Home"
    /\ platform_select = "Weather Analytics"
    /\ PlatformSelected = FALSE

\* The session flag of the weather page (False while it is not yet there).
AnalyzeClicked ==
    "analyze_clicked" \in DOMAIN session_state /\ session_state["analyze_clicked"]

\* A run of the weather page had the button pressed.
Pressed(n) == \E k \in 1..n : wx_runs[k].pressed

\* C30: the flag analyze_clicked of the weather page is monotone: it is False
\* until 'Get Weather Data' is pressed, True from the run of the press on, and
\* nothing sets it back; once it is True every run of the page with a
\* non-empty API key and city requests the current weather, pressed or not.
C30_AnalyzeClickedMonotone ==
    /\ [](AnalyzeClicked <=> Pressed(Len(wx_runs)))
    /\ [](\A k \in 1..Len(wx_runs) :
            /\ wx_runs[k].clicked_before <=> Pressed(k - 1)
            /\ (wx_runs[k].clicked_before /\ wx_runs[k].key # "" /\ wx_runs[k].city # "")
                   => (wx_runs[k].requests # <<>> /\ wx_runs[k].requests[1] = "weather")
            /\ wx_runs[k].requests # <<>>
                   => (wx_runs[k].clicked_before \/ wx_runs[k].pressed))
    /\ [][AnalyzeClicked => AnalyzeClicked']_vars

\* The button was pressed in the third run; the user then left the page, came
\* back, and typing the API key in the fifth run fetched the weather with no
\* new press.
C30_Witness ==
    /\ Len(wx_runs) = 5
    /\ wx_runs[3].pressed
    /\ wx_runs[4].key = ""
    /\ wx_runs[4].requests = <<>>
    /\ ~wx_runs[5].pressed
    /\ wx_runs[5].clicked_before
    /\ wx_runs[5].requests # <<>>

====
